---------------------------- MODULE Spec2Model ----------------------------
(***************************************************************************)
(* Freezer X controller firmware (src/code/src/main.cpp).                  *)
(*                                                                         *)
(* Spec: the compressor control state machine.  One Tick is one pass of    *)
(* loop() whose one-second condition holds: the pending configuration is   *)
(* applied, update_state() runs, the clock has advanced since the previous *)
(* tick.  on_button_pressed is the interrupt that commits an edit.         *)
(*                                                                         *)
(* Time is scaled.  The firmware's millisecond clock is a uint32_t; here   *)
(* it is a ClockBits-bit counter, and the factors that turn configured     *)
(* seconds and minutes into clock units (1000 and 60000 in the source) are *)
(* MsPerSec and MsPerMin.  Every subtraction of two clock values is taken  *)
(* modulo the clock's width, as unsigned arithmetic does in the source.    *)
(* millis() is read once per tick: the calls inside one update_state() are *)
(* microseconds apart.                                                     *)
(*                                                                         *)
(* SpecLog: save_data_point() appending records to the card, one block     *)
(* read or write per step, each of which may fail.  Counts are uint32_t    *)
(* values held as their four bytes, and calculate_crc8() is computed bit   *)
(* by bit.                                                                 *)
(*                                                                         *)
(* SpecPower: the appends with power lost between or inside block writes.  *)
(* SpecTickLog: the control loop with its logging.  SpecBoot: the same     *)
(* after init_sd_card(), one command per step.  SpecCard: one block read   *)
(* or write on the SPI bus, one received byte per step.  SpecCrc:          *)
(* calculate_crc8() byte by byte.  SpecUI: loop(), the encoder and the     *)
(* button interrupt, which may fire between any two steps.                 *)
(***************************************************************************)
EXTENDS Integers, Sequences, FiniteSets, TLC

\* ------------------------------------------------------------- bounds

\* width of the millisecond clock in bits (32 in the source)
ClockBits == 3
\* clock units per configured second (1000 in the source)
MsPerSec == 1
\* clock units per configured minute (60000 in the source)
MsPerMin == 2
\* the refresh interval of loop() in clock units (1000 in the source)
TickMs == 1
\* the longest time a pass of loop() adds to the refresh interval
MaxJitter == 1

\* the number of appends to the card in one run
MaxAppends == 3

\* the number of polls of the card that fit into wait_card_busy()'s 300 ms
BusyTimeoutPolls == 2

\* the number of polls after which a wait loop is followed no further
MaxPolls == 5

\* the number of rotary edit steps in one run
MaxEdits == 2

ClockMod == 2 ^ ClockBits

\* uint32_t arithmetic on clock values
U32(x) == x % ClockMod

\* ------------------------------------------------------------- types

\* enum freezer_status
off == 0
cooling == 1
reached_target == 2
dead_time == 3
compressor_max_runtime == 4
startup_delay == 5
overheat == 6

LOW == FALSE
HIGH == TRUE

\* struct freezer_config with its default initialisers, durations scaled:
\* hysteresis in seconds, dead time, max run time and startup delay in minutes
freezer_config ==
  [ target_temperature |-> -18,
    target_temperature_hysteresis_time |-> 2,
    compressor_dead_time |-> 1,
    compressor_max_run_time |-> 2,
    compressor_max_temp |-> 45,
    freezer_startup_delay |-> 1 ]

\* the configurations a user edit can commit in this model
ConfigSet ==
  { freezer_config,
    [freezer_config EXCEPT !.freezer_startup_delay = 2,
                           !.compressor_dead_time = 2,
                           !.target_temperature_hysteresis_time = 1,
                           !.compressor_max_run_time = 3,
                           !.target_temperature = -21,
                           !.compressor_max_temp = 60] }

\* what read_sensors() can find, degrees Celsius: the evaporator thermistor
\* (ntc 1) and the compressor thermistor (ntc 2)
Readings ==
  { << -25, 40 >>, << -17, 40 >>, << -25, 61 >>, << -17, 61 >>,
    << 150, 40 >>, << -101, 61 >>, << -17, 101 >> }

\* struct freezer_state with its default initialisers
freezer_state ==
  [ current_ntc1_temperature |-> 0,
    current_ntc2_temperature |-> 0,
    target_compressor_state |-> LOW,
    actual_compressor_state |-> LOW,
    status |-> off ]

VARIABLES
  millis,                          \* the value millis() returns
  active_config, dirty_config, config_is_dirty,
  current_state,
  compressor_turned_on_at, compressor_turned_off_at,
  reached_target_temperature_at, exceeded_max_runtime_at,
  startup_delay_over,
  relay,                           \* level of the COMPRESSOR_RELAY pin
  relay_written,                   \* history: the last tick wrote that pin
  halted,                          \* control is inside halt()'s for(;;)
  last_log,                        \* argument of the last log_state() call
  \* history of the run, not program state
  branch,         \* the way the last tick went: "gate", "eval" or "halt"
  override,       \* update_state()'s local variable of the last tick
  uptime,         \* real time since boot
  delay_edited,   \* an edit has changed the startup delay since boot
  on_for,         \* real time the compressor had been on at the last tick,
                  \* the tick that turned it off included; -1 when it was off
  off_for,        \* real time since the compressor was last turned off,
                  \* -1 when it never was
  within_for,     \* real time since the first tick of the within-target
                  \* run that the last tick continued, -1 when it was above
  mr_cooldown,    \* "active": a max-runtime shutdown happened and, at the
                  \* last tick, less than the dead time had passed since;
                  \* "over": the last tick was the first one after that
  logging_enabled,  \* set by initialize_logging() when the card came up
  \* init_sd_card()
  init_pc,          \* where the call stands, "done" after initialize_logging()
  init_i,           \* its loop counter i
  init_result,      \* what it returned: "true" or "false"
  \* history of the call, not program state
  commands,         \* the commands it has sent, in order, each with its
                    \* argument and the response read_card_response() gave
  \* the menu
  edit_mode, screen_index,
  persisted_config, \* the configuration in the EEPROM
  loop_pc,          \* where loop() stands: "top", "evaluating" (inside
                    \* update_state()), "input" (before handle_input()) or
                    \* "clamp" (inside handle_input(), between the change of
                    \* the value and the range test)
  edits,            \* history: number of edit steps so far
  \* the card and save_data_point()
  card,             \* the card's blocks that have been written: block
                    \* address -> content
  sd_pc,            \* where save_data_point() stands, "idle" outside it
  data,             \* save_data_point()'s argument
  count_sector_0, count_sector_1,      \* its local variables
  sd_result,        \* what the last call returned: "true" or "false"
  \* history of the appends, not program state
  card_before,      \* the card when the last call started
  appends,          \* number of calls so far
  sd_writes,        \* the block addresses the last call has written, in
                    \* the order of the writes
  done,             \* the appends that returned true: the count each one
                    \* wrote and the block it wrote as record
  done_before,      \* done when the last call started
  \* one read_card_block() or write_card_block() call on the SPI bus
  card_op,          \* "read" or "write"
  xfer_pc,          \* where the call stands, "idle" outside it
  polls,            \* passes through the wait loop it is in
  op_result,        \* what the last call returned
  \* history of the call, not program state
  op_polls,         \* polls of the card since the call started
  r_byte,           \* the byte wait_card_busy() received last
  \* calculate_crc8()
  crc_span,         \* the bytes data[0 .. len-1] it is called on
  crc_pc,           \* "loop" inside the call, "idle" outside it
  crc_i,            \* its loop counter i
  crc_reg,          \* its local variable crc
  \* history of the calls, not program state
  crc_results,      \* what the calls returned, in order
  crc_flip          \* the bit of the span flipped between the calls, -1
                    \* when none was

ctlVars == << current_state, compressor_turned_on_at, compressor_turned_off_at,
              reached_target_temperature_at, exceeded_max_runtime_at,
              startup_delay_over, relay, relay_written, halted, last_log >>
cfgVars == << active_config, dirty_config, config_is_dirty >>
histVars == << branch, override, uptime, delay_edited, on_for,
               off_for, within_for, mr_cooldown >>
sdVars == << card, sd_pc, data, count_sector_0, count_sector_1, sd_result,
             card_before, appends, sd_writes, done, done_before >>
setupVars == << logging_enabled, init_pc, init_i, init_result, commands >>
crcVars == << crc_span, crc_pc, crc_i, crc_reg, crc_results, crc_flip >>
uiVars == << edit_mode, screen_index, persisted_config, loop_pc, edits >>
xferVars == << card_op, xfer_pc, polls, op_result, op_polls, r_byte >>
vars == << millis, cfgVars, ctlVars, histVars, setupVars, crcVars, uiVars, sdVars, xferVars >>


\* --------------------------------------------------- the program's globals

\* the globals update_state() reads and writes, as one value
Globals ==
  [ current_state |-> current_state,
    compressor_turned_on_at |-> compressor_turned_on_at,
    compressor_turned_off_at |-> compressor_turned_off_at,
    reached_target_temperature_at |-> reached_target_temperature_at,
    exceeded_max_runtime_at |-> exceeded_max_runtime_at,
    startup_delay_over |-> startup_delay_over,
    relay |-> relay,
    relay_written |-> relay_written,
    halted |-> halted,
    last_log |-> last_log ]

\* bool is_compressor_overheating()
is_compressor_overheating(g, c) ==
  g.current_state.current_ntc2_temperature >= c.compressor_max_temp

\* bool is_startup_delay_over()
is_startup_delay_over(c, t) ==
  t >= U32(c.freezer_startup_delay * MsPerMin)

\* bool is_compressor_on()
is_compressor_on(g) == g.current_state.actual_compressor_state

\* bool is_within_target_temperature()
is_within_target_temperature(g, c) ==
  g.current_state.current_ntc1_temperature <= c.target_temperature

\* bool has_hysteresis_time_elapsed()
has_hysteresis_time_elapsed(g, c, t) ==
  U32(t - g.reached_target_temperature_at)
    >= U32(c.target_temperature_hysteresis_time * MsPerSec)

\* bool has_dead_time_elapsed()
has_dead_time_elapsed(g, c, t) ==
  IF g.compressor_turned_off_at = 0
  THEN TRUE
  ELSE U32(t - g.compressor_turned_off_at)
         >= U32(c.compressor_dead_time * MsPerMin)

\* mutant of has_compressor_exceeded_max_runtime: the run time is compared
\* with > instead of >=
has_compressor_exceeded_max_runtime_late(g, c, t) ==
  IF g.exceeded_max_runtime_at > 0
  THEN IF has_dead_time_elapsed(g, c, t)
       THEN [ret |-> FALSE, g |-> [g EXCEPT !.exceeded_max_runtime_at = 0]]
       ELSE [ret |-> TRUE, g |-> g]
  ELSE IF /\ is_compressor_on(g)
          /\ U32(t - g.compressor_turned_on_at)
               > U32(c.compressor_max_run_time * MsPerMin)
       THEN [ret |-> TRUE, g |-> [g EXCEPT !.exceeded_max_runtime_at = t]]
       ELSE [ret |-> FALSE, g |-> [g EXCEPT !.exceeded_max_runtime_at = 0]]

\* bool has_compressor_exceeded_max_runtime(): its result and the globals
\* after it, for it writes exceeded_max_runtime_at
has_compressor_exceeded_max_runtime(g, c, t) ==
  IF g.exceeded_max_runtime_at > 0
  THEN IF has_dead_time_elapsed(g, c, t)
       THEN [ret |-> FALSE, g |-> [g EXCEPT !.exceeded_max_runtime_at = 0]]
       ELSE [ret |-> TRUE, g |-> g]
  ELSE IF /\ is_compressor_on(g)
          /\ U32(t - g.compressor_turned_on_at)
               >= U32(c.compressor_max_run_time * MsPerMin)
       THEN [ret |-> TRUE, g |-> [g EXCEPT !.exceeded_max_runtime_at = t]]
       ELSE [ret |-> FALSE, g |-> [g EXCEPT !.exceeded_max_runtime_at = 0]]

\* mutant of set_compressor: the pin and the timers are written on every
\* call
set_compressor_every_call(g, state, t) ==
  [g EXCEPT !.compressor_turned_on_at = IF state = HIGH THEN t ELSE 0,
            !.compressor_turned_off_at = IF state = HIGH THEN 0 ELSE t,
            !.relay = state,
            !.relay_written = TRUE,
            !.current_state.actual_compressor_state = state]

\* void set_compressor(bool state)
set_compressor(g, state, t) ==
  IF state # g.current_state.actual_compressor_state
  THEN [g EXCEPT !.compressor_turned_on_at = IF state = HIGH THEN t ELSE 0,
                 !.compressor_turned_off_at = IF state = HIGH THEN 0 ELSE t,
                 !.relay = state,
                 !.relay_written = TRUE,
                 !.current_state.actual_compressor_state = state]
  ELSE g

\* void read_sensors(): n1 and n2 are the averaged readings
read_sensors(g, n1, n2) ==
  [g EXCEPT !.current_state.current_ntc1_temperature = n1,
            !.current_state.current_ntc2_temperature = n2]

\* mutant of halt: the compressor is left as it is
halt_without_shutdown(g, t) == [g EXCEPT !.halted = TRUE]

\* void halt(const char* error)
halt(g, t) == [set_compressor(g, FALSE, t) EXCEPT !.halted = TRUE]

\* the condition under which validate_temperatures() calls halt()
sensor_fault(g) ==
  \/ g.current_state.current_ntc1_temperature < -100
  \/ g.current_state.current_ntc1_temperature > 100
  \/ g.current_state.current_ntc2_temperature > 100

\* volatile void log_state(): the data point handed to save_data_point()
log_state(g, c, t) ==
  [g EXCEPT !.last_log = [ms_since_startup |-> t, config |-> c,
                          state |-> g.current_state]]

\* mutant of base_decision: within the target and the hysteresis time not
\* yet over, the status is reached_target although the compressor is
\* commanded on
base_decision_early_status(g, c, t) ==
  IF is_within_target_temperature(g, c)
  THEN LET g1 == IF g.reached_target_temperature_at = 0
                 THEN [g EXCEPT !.reached_target_temperature_at = t]
                 ELSE g
       IN IF has_hysteresis_time_elapsed(g1, c, t)
          THEN [g1 EXCEPT !.current_state.target_compressor_state = LOW,
                          !.current_state.status = reached_target]
          ELSE [g1 EXCEPT !.current_state.target_compressor_state = HIGH,
                          !.current_state.status = reached_target]
  ELSE [g EXCEPT !.reached_target_temperature_at = 0,
                 !.current_state.target_compressor_state = HIGH,
                 !.current_state.status = cooling]

\* update_state(), lines 616-640: the base decision
base_decision(g, c, t) ==
  IF is_within_target_temperature(g, c)
  THEN LET g1 == IF g.reached_target_temperature_at = 0
                 THEN [g EXCEPT !.reached_target_temperature_at = t]
                 ELSE g
       IN IF has_hysteresis_time_elapsed(g1, c, t)
          THEN [g1 EXCEPT !.current_state.target_compressor_state = LOW,
                          !.current_state.status = reached_target]
          ELSE [g1 EXCEPT !.current_state.target_compressor_state = HIGH,
                          !.current_state.status = cooling]
  ELSE [g EXCEPT !.reached_target_temperature_at = 0,
                 !.current_state.target_compressor_state = HIGH,
                 !.current_state.status = cooling]

\* mutant of overrides: the max run time is looked at before the overheating
overrides_runtime_first(g, c, t) ==
  IF g.current_state.target_compressor_state = HIGH
  THEN LET r == has_compressor_exceeded_max_runtime(g, c, t)
       IN IF r.ret
          THEN [g |-> [r.g EXCEPT !.current_state.status =
                                     compressor_max_runtime],
                override |-> TRUE]
          ELSE IF is_compressor_overheating(r.g, c)
          THEN [g |-> [r.g EXCEPT !.current_state.status = overheat],
                override |-> TRUE]
          ELSE IF ~is_compressor_on(r.g) /\ ~has_dead_time_elapsed(r.g, c, t)
          THEN [g |-> [r.g EXCEPT !.current_state.status = dead_time],
                override |-> TRUE]
          ELSE [g |-> r.g, override |-> FALSE]
  ELSE [g |-> g, override |-> FALSE]

\* update_state(), lines 644-664: the overrides; the globals after them and
\* the local variable override
overrides(g, c, t) ==
  IF g.current_state.target_compressor_state = HIGH
  THEN IF is_compressor_overheating(g, c)
       THEN [g |-> [g EXCEPT !.current_state.status = overheat],
             override |-> TRUE]
       ELSE LET r == has_compressor_exceeded_max_runtime(g, c, t)
            IN IF r.ret
               THEN [g |-> [r.g EXCEPT !.current_state.status =
                                          compressor_max_runtime],
                     override |-> TRUE]
               ELSE IF ~is_compressor_on(r.g)
                       /\ ~has_dead_time_elapsed(r.g, c, t)
                    THEN [g |-> [r.g EXCEPT !.current_state.status = dead_time],
                          override |-> TRUE]
                    ELSE [g |-> r.g, override |-> FALSE]
  ELSE [g |-> g, override |-> FALSE]

\* mutant of startup_gate_taken: no latch, the delay is compared on every tick
startup_gate_unlatched(g, c, t) == ~is_startup_delay_over(c, t)

\* update_state(), line 599: the startup gate is taken until it has latched
startup_gate_taken(g, c, t) == ~g.startup_delay_over

\* mutant of effective_state: the override is not looked at
effective_state_ignoring_override(g, ov) ==
  g.current_state.target_compressor_state

\* update_state(), line 666: the state the compressor is set to
effective_state(g, ov) == g.current_state.target_compressor_state /\ ~ov

\* void update_state(): the globals after the call, which way it went and its
\* local variable override.  g are the globals before, c the active
\* configuration, t the clock, n1 and n2 the sensor readings
update_state(g, c, t, n1, n2) ==
  LET g0 == read_sensors([g EXCEPT !.relay_written = FALSE], n1, n2)
  IN IF sensor_fault(g0)
     THEN [g |-> halt(g0, t), branch |-> "halt", override |-> FALSE]
     ELSE IF startup_gate_taken(g0, c, t)
     THEN LET g1 == [g0 EXCEPT !.startup_delay_over =
                                  is_startup_delay_over(c, t),
                               !.current_state.status = startup_delay]
          IN [g |-> log_state(g1, c, t), branch |-> "gate",
              override |-> FALSE]
     ELSE LET o == overrides(base_decision(g0, c, t), c, t)
              g2 == set_compressor(o.g, effective_state(o.g, o.override), t)
          IN [g |-> log_state(g2, c, t), branch |-> "eval",
              override |-> o.override]


\* ------------------------------------------------------------- the card

\* A uint32_t is held as its four bytes, lowest first, the order in which
\* the controller stores it and in which calculate_crc8() reads it.
Uint32(b0, b1, b2, b3) == << b0, b1, b2, b3 >>

\* n + k in uint32_t arithmetic, for 0 <= k < 256
AddU32(n, k) ==
  LET s0 == n[1] + k
      s1 == n[2] + (s0 \div 256)
      s2 == n[3] + (s1 \div 256)
      s3 == n[4] + (s2 \div 256)
  IN << s0 % 256, s1 % 256, s2 % 256, s3 % 256 >>

\* a ^ b on the n lowest bits
RECURSIVE xor_bits(_, _, _)
xor_bits(a, b, n) ==
  IF n = 0 THEN 0
  ELSE ((a + b) % 2) + 2 * xor_bits(a \div 2, b \div 2, n - 1)

\* mutant of crc8_rounds: the polynomial is left out, crc is only shifted
RECURSIVE crc8_rounds_shift_only(_, _)
crc8_rounds_shift_only(crc, j) ==
  IF j = 0 THEN crc
  ELSE crc8_rounds_shift_only((crc * 2) % 256, j - 1)

\* calculate_crc8(), lines 1053-1063: j rounds of the inner loop
RECURSIVE crc8_rounds(_, _)
crc8_rounds(crc, j) ==
  IF j = 0 THEN crc
  ELSE crc8_rounds(IF crc >= 128
                   THEN xor_bits((crc * 2) % 256, 7, 8)
                   ELSE (crc * 2) % 256,
                   j - 1)

\* calculate_crc8(), lines 1049-1064: the outer loop from byte i on
RECURSIVE crc8_from(_, _, _)
crc8_from(bytes, i, crc) ==
  IF i > Len(bytes) THEN crc
  ELSE crc8_from(bytes, i + 1, crc8_rounds(xor_bits(crc, bytes[i], 8), 8))

\* uint8_t calculate_crc8(const uint8_t *data, uint8_t len)
calculate_crc8(bytes) == crc8_from(bytes, 1, 0)

\* no call of calculate_crc8() is followed step by step
NoChecksum ==
  /\ crc_span = << >>
  /\ crc_pc = "idle"
  /\ crc_i = 0
  /\ crc_reg = 0
  /\ crc_results = << >>
  /\ crc_flip = -1

\* A block of the card: head are its first five bytes, which is all that
\* save_data_point() reads back, tail stands for the rest (0: zero fill).
\* The block write_card_block() makes of a struct sd_count_sector
count_block(cs) == [head |-> cs.count \o << cs.crc >>, tail |-> 0]

\* the struct sd_count_sector read_card_block() makes of a block
sd_count_sector(block) ==
  [count |-> SubSeq(block.head, 1, 4), crc |-> block.head[5]]

\* The block write_card_block() makes of a freezer_state_data_point: the
\* magic bytes 'F' 'Z' 'Z' 'X', then ms_since_startup, lowest byte first
data_block(d) == [head |-> << 70, 90, 90, 88, d.ms_low >>, tail |-> d.tag]

\* the data points handed to save_data_point(): the lowest byte of
\* ms_since_startup, and a tag for the rest of the struct
DataPoints == { [ms_low |-> 0, tag |-> 1], [ms_low |-> 232, tag |-> 2] }

\* addresses of the two count blocks
Block0 == Uint32(0, 0, 0, 0)
Block1 == Uint32(1, 0, 0, 0)

\* the counts a card may hold in a count block when the controller first
\* reads it: nothing in the firmware ever formats the card
CardCounts ==
  { Uint32(0, 0, 0, 0), Uint32(3, 0, 0, 0), Uint32(5, 0, 0, 0),
    Uint32(253, 255, 255, 255), Uint32(254, 255, 255, 255),
    Uint32(255, 255, 255, 255) }

\* the count blocks a card may hold: a count with its checksum or with
\* another byte
CardCountBlocks ==
  { count_block([count |-> n, crc |-> (calculate_crc8(n) + k) % 256]) :
      n \in CardCounts, k \in {0, 1} }

\* c after a successful write_card_block(addr, ...) of block b
write_card_block(c, addr, b) ==
  [a \in DOMAIN c \cup {addr} |-> IF a = addr THEN b ELSE c[a]]

\* save_data_point(), lines 1118-1135: the two local variables after the
\* repair choice
repair_choice(cs0, cs1) ==
  IF cs0.count # cs1.count
  THEN IF cs0.crc = calculate_crc8(cs0.count)
       THEN [cs0 |-> cs0, cs1 |-> cs0]
       ELSE IF cs1.crc = calculate_crc8(cs1.count)
       THEN [cs0 |-> cs1, cs1 |-> cs1]
       ELSE [cs0 |-> cs0, cs1 |-> cs0]
  ELSE [cs0 |-> cs0, cs1 |-> cs1]

\* sd_count_sector count_sector_0 {};
EmptySector == [count |-> Uint32(0, 0, 0, 0), crc |-> 0]

\* init_sd_card(), line 1234
retries == 3

\* what read_card_response() may return after a command of init_sd_card():
\* 0x00 (ready), 0x01 (idle), 0x05 (idle, illegal command) and 0xFF (no
\* response)
InitResponses == { 0, 1, 5, 255 }

\* the commands of an init_sd_card() call that the card accepted in the
\* first round
AcceptedBringUp ==
  << [cmd |-> 0, arg |-> 0, response |-> 1],
     [cmd |-> 8, arg |-> 426, response |-> 1],
     [cmd |-> 55, arg |-> 0, response |-> 1],
     [cmd |-> 41, arg |-> 1073741824, response |-> 0] >>

\* the commands of an init_sd_card() call with no card in the slot
RefusedBringUp == << [cmd |-> 0, arg |-> 0, response |-> 255] >>

\* ------------------------------------------------------------- the menu

HOME_SCREEN == 0
INFO_SCREEN == 7

MIN_TARGET_TEMPERATURE == -22
MAX_TARGET_TEMPERATURE == -10
TARGET_TEMPERATURE_INCREMENT == 1
MIN_TARGET_TEMPERATURE_HYSTERESIS_TIME == 5
MAX_TARGET_TEMPERATURE_HYSTERESIS_TIME == 350
TARGET_TEMPERATURE_HYSTERESIS_TIME_INCREMENT == 10
MIN_COMPRESSOR_DEAD_TIME == 2
MAX_COMPRESSOR_DEAD_TIME == 20
COMPRESSOR_DEAD_TIME_INCREMENT == 1
MIN_COMPRESSOR_MAX_RUNTIME == 60
MAX_COMPRESSOR_MAX_RUNTIME == 600
COMPRESSOR_MAX_RUNTIME_INCREMENT == 10
MIN_COMPRESSOR_MAX_TEMP == 30
MAX_COMPRESSOR_MAX_TEMP == 60
COMPRESSOR_MAX_TEMP_INCREMENT == 1
MIN_FREEZER_STARTUP_DELAY == 0
MAX_FREEZER_STARTUP_DELAY == 20
FREEZER_STARTUP_DELAY_INCREMENT == 1

\* menu_entry menu_entries[]: the field of dirty_config an entry edits, its
\* increment and its range
menu_entries ==
  << [value |-> "target_temperature",
      increment |-> TARGET_TEMPERATURE_INCREMENT,
      min |-> MIN_TARGET_TEMPERATURE, max |-> MAX_TARGET_TEMPERATURE],
     [value |-> "target_temperature_hysteresis_time",
      increment |-> TARGET_TEMPERATURE_HYSTERESIS_TIME_INCREMENT,
      min |-> MIN_TARGET_TEMPERATURE_HYSTERESIS_TIME,
      max |-> MAX_TARGET_TEMPERATURE_HYSTERESIS_TIME],
     [value |-> "compressor_dead_time",
      increment |-> COMPRESSOR_DEAD_TIME_INCREMENT,
      min |-> MIN_COMPRESSOR_DEAD_TIME, max |-> MAX_COMPRESSOR_DEAD_TIME],
     [value |-> "compressor_max_run_time",
      increment |-> COMPRESSOR_MAX_RUNTIME_INCREMENT,
      min |-> MIN_COMPRESSOR_MAX_RUNTIME,
      max |-> MAX_COMPRESSOR_MAX_RUNTIME],
     [value |-> "compressor_max_temp",
      increment |-> COMPRESSOR_MAX_TEMP_INCREMENT,
      min |-> MIN_COMPRESSOR_MAX_TEMP, max |-> MAX_COMPRESSOR_MAX_TEMP],
     [value |-> "freezer_startup_delay",
      increment |-> FREEZER_STARTUP_DELAY_INCREMENT,
      min |-> MIN_FREEZER_STARTUP_DELAY,
      max |-> MAX_FREEZER_STARTUP_DELAY] >>

\* The configurations load_config() may find in the EEPROM: the defaults of
\* struct freezer_config, and what earlier edits of them have left there,
\* here every field at the low end or every field at the high end of its
\* range
StoredConfigs ==
  { [ target_temperature |-> -18,
      target_temperature_hysteresis_time |-> 60,
      compressor_dead_time |-> 5,
      compressor_max_run_time |-> 300,
      compressor_max_temp |-> 45,
      freezer_startup_delay |-> 2 ],
    [ target_temperature |-> MIN_TARGET_TEMPERATURE,
      target_temperature_hysteresis_time |->
        MIN_TARGET_TEMPERATURE_HYSTERESIS_TIME,
      compressor_dead_time |-> MIN_COMPRESSOR_DEAD_TIME,
      compressor_max_run_time |-> MIN_COMPRESSOR_MAX_RUNTIME,
      compressor_max_temp |-> MIN_COMPRESSOR_MAX_TEMP,
      freezer_startup_delay |-> MIN_FREEZER_STARTUP_DELAY ],
    [ target_temperature |-> MAX_TARGET_TEMPERATURE,
      target_temperature_hysteresis_time |->
        MAX_TARGET_TEMPERATURE_HYSTERESIS_TIME,
      compressor_dead_time |-> MAX_COMPRESSOR_DEAD_TIME,
      compressor_max_run_time |-> MAX_COMPRESSOR_MAX_RUNTIME,
      compressor_max_temp |-> MAX_COMPRESSOR_MAX_TEMP,
      freezer_startup_delay |-> MAX_FREEZER_STARTUP_DELAY ] }

\* ------------------------------------------------------------- the run

\* the cap of the history clocks: a value of HistCap stands for "HistCap or
\* more"
HistCap == ClockMod

Min(a, b) == IF a < b THEN a ELSE b

\* a history clock dt later
Later(x, dt) == Min(x + dt, HistCap)

\* the time between two ticks: loop() runs update_state() when at least the
\* refresh interval has passed
TickSteps == TickMs .. (TickMs + MaxJitter)

\* setup(): load_config() leaves the stored (or the default) configuration in
\* both copies; the globals have their static initialisers
Init ==
  /\ millis = 0
  /\ active_config \in ConfigSet
  /\ dirty_config = active_config
  /\ config_is_dirty = FALSE
  /\ current_state = freezer_state
  /\ compressor_turned_on_at = 0
  /\ compressor_turned_off_at = 0
  /\ reached_target_temperature_at = 0
  /\ exceeded_max_runtime_at = 0
  /\ startup_delay_over = FALSE
  /\ relay = LOW
  /\ relay_written = FALSE
  /\ halted = FALSE
  /\ last_log = "none"
  /\ branch = "none"
  /\ override = FALSE
  /\ uptime = 0
  /\ delay_edited = FALSE
  /\ on_for = -1
  /\ off_for = -1
  /\ within_for = -1
  /\ mr_cooldown = "none"
  /\ logging_enabled = FALSE
  /\ init_pc = "done"
  /\ init_i = 0
  /\ init_result = (IF logging_enabled THEN "true" ELSE "false")
  /\ commands = (IF logging_enabled THEN AcceptedBringUp ELSE RefusedBringUp)
  /\ edit_mode = FALSE
  /\ screen_index = HOME_SCREEN
  /\ persisted_config = active_config
  /\ loop_pc = "top"
  /\ edits = 0
  /\ card = [a \in {Block0, Block1} |-> count_block(EmptySector)]
  /\ sd_pc = "idle"
  /\ data = CHOOSE d \in DataPoints : TRUE
  /\ count_sector_0 = EmptySector
  /\ count_sector_1 = EmptySector
  /\ sd_result = "none"
  /\ card_before = card
  /\ appends = 0
  /\ sd_writes = << >>
  /\ done = {}
  /\ done_before = {}
  /\ card_op = "read"
  /\ xfer_pc = "idle"
  /\ polls = 0
  /\ op_result = "none"
  /\ op_polls = 0
  /\ r_byte = 255
  /\ NoChecksum

\* the configuration a tick evaluates: loop() copies a pending edit first
config_at_tick ==
  IF config_is_dirty THEN dirty_config ELSE active_config

\* the history variables after a tick that took the clock from millis to
\* millis + dt, read the primary sensor as n1 and left r
History(r, c, dt, n1) ==
  LET was_on == current_state.actual_compressor_state
      is_on == r.g.current_state.actual_compressor_state
  IN /\ branch' = r.branch
     /\ override' = r.override
     /\ uptime' = Later(uptime, dt)
     /\ delay_edited' =
          (delay_edited
             \/ c.freezer_startup_delay # active_config.freezer_startup_delay)
     /\ on_for' = IF was_on THEN Later(on_for, dt)
                  ELSE IF is_on THEN 0 ELSE -1
     /\ off_for' = IF was_on /\ ~is_on THEN 0
                   ELSE IF off_for = -1 THEN -1 ELSE Later(off_for, dt)
     /\ within_for' = IF r.branch # "eval" THEN within_for
                      ELSE IF n1 > c.target_temperature THEN -1
                      ELSE IF within_for = -1 THEN 0
                      ELSE Later(within_for, dt)
     /\ mr_cooldown' =
          IF r.branch # "eval" THEN mr_cooldown
          ELSE IF was_on
          THEN IF ~is_on /\ r.g.current_state.status = compressor_max_runtime
               THEN "active" ELSE "none"
          ELSE IF mr_cooldown = "active"
          THEN IF Later(off_for, dt) < c.compressor_dead_time * MsPerMin
               THEN "active" ELSE "over"
          ELSE "none"

\* log_state(), lines 1071-1090, at the end of a tick that went r.branch:
\* with logging enabled, save_data_point() is called with the data point of
\* the tick; halt() never comes to log_state()
log_state_call(r, t) ==
  IF logging_enabled /\ r.branch # "halt"
  THEN /\ appends < MaxAppends
       /\ appends' = appends + 1
       /\ card_before' = card
       /\ data' = [ms_low |-> t % 256, tag |-> r.g.last_log]
       /\ count_sector_0' = EmptySector
       /\ count_sector_1' = EmptySector
       /\ sd_pc' = "read0"
       /\ sd_result' = "none"
       /\ sd_writes' = << >>
       /\ done_before' = done
       /\ UNCHANGED << card, done >>
  ELSE UNCHANGED sdVars

\* loop(), lines 349-360: one refresh.  dt is the time since the last one.
\* The refresh before it has returned, its save_data_point() included
Tick(dt, n1, n2) ==
  /\ ~halted
  /\ sd_pc = "idle"
  /\ LET t == U32(millis + dt)
         c == config_at_tick
         r == update_state(Globals, c, t, n1, n2)
     IN /\ millis' = t
        /\ active_config' = c
        /\ config_is_dirty' = FALSE
        /\ UNCHANGED dirty_config
        /\ current_state' = r.g.current_state
        /\ compressor_turned_on_at' = r.g.compressor_turned_on_at
        /\ compressor_turned_off_at' = r.g.compressor_turned_off_at
        /\ reached_target_temperature_at' = r.g.reached_target_temperature_at
        /\ exceeded_max_runtime_at' = r.g.exceeded_max_runtime_at
        /\ startup_delay_over' = r.g.startup_delay_over
        /\ relay' = r.g.relay
        /\ relay_written' = r.g.relay_written
        /\ halted' = r.g.halted
        /\ last_log' = r.g.last_log
        /\ History(r, c, dt, n1)
        /\ log_state_call(r, t)
        /\ UNCHANGED << setupVars, crcVars, uiVars, xferVars >>

\* on_button_pressed() leaving edit mode, after handle_input() has edited the
\* shadow configuration to c: the edit is saved and marked pending.  Inside
\* halt() only the interrupt runs, and the shadow copy stays as it is
on_button_pressed(c) ==
  /\ dirty_config' = IF halted THEN dirty_config ELSE c
  /\ config_is_dirty' = TRUE
  /\ UNCHANGED << millis, active_config, ctlVars, histVars, setupVars, crcVars, uiVars, sdVars,
                  xferVars >>

\* the control loop alone: the configuration stays the one loaded at boot
Next == \E dt \in TickSteps, n \in Readings : Tick(dt, n[1], n[2])

Spec == Init /\ [][Next]_vars

\* what read_sensors() finds in the runs with edits: within the target,
\* above it, above it with a hot compressor, and a reading out of range
EditReadings == { << -25, 40 >>, << -17, 40 >>, << -17, 61 >>, << 150, 40 >> }

\* the control loop and the user committing edits
NextEdit ==
  \/ \E dt \in TickSteps, n \in EditReadings : Tick(dt, n[1], n[2])
  \/ \E c \in ConfigSet : on_button_pressed(c)

SpecEdit == Init /\ [][NextEdit]_vars

\* ------------------------------------------------------------- appends

\* save_data_point() returns r
sd_return(r) == sd_pc' = "idle" /\ sd_result' = r

\* log_state(), line 1090: save_data_point(&data_point) is called
save_data_point(d) ==
  /\ sd_pc = "idle"
  /\ appends < MaxAppends
  /\ appends' = appends + 1
  /\ card_before' = card
  /\ data' = d
  /\ count_sector_0' = EmptySector
  /\ count_sector_1' = EmptySector
  /\ sd_pc' = "read0"
  /\ sd_result' = "none"
  /\ sd_writes' = << >>
  /\ done_before' = done
  /\ UNCHANGED << card, done, millis, cfgVars, ctlVars, histVars, setupVars, crcVars, uiVars, xferVars >>

\* save_data_point(), lines 1108-1111; ok: read_card_block() succeeds
save_read0(ok) ==
  /\ sd_pc = "read0"
  /\ IF ok
     THEN /\ count_sector_0' = sd_count_sector(card[Block0])
          /\ sd_pc' = "read1"
          /\ UNCHANGED sd_result
     ELSE /\ sd_return("false")
          /\ UNCHANGED count_sector_0
  /\ UNCHANGED << card, data, count_sector_1, card_before, appends,
                  sd_writes, done, done_before,
                  millis, cfgVars, ctlVars, histVars, setupVars, crcVars, uiVars, xferVars >>

\* save_data_point(), lines 1113-1116
save_read1(ok) ==
  /\ sd_pc = "read1"
  /\ IF ok
     THEN /\ count_sector_1' = sd_count_sector(card[Block1])
          /\ sd_pc' = "repair"
          /\ UNCHANGED sd_result
     ELSE /\ sd_return("false")
          /\ UNCHANGED count_sector_1
  /\ UNCHANGED << card, data, count_sector_0, card_before, appends,
                  sd_writes, done, done_before,
                  millis, cfgVars, ctlVars, histVars, setupVars, crcVars, uiVars, xferVars >>

\* mutant of save_repair: block 1 is written whether the counts differ or
\* not
save_repair_always(ok) ==
  /\ sd_pc = "repair"
  /\ LET r == repair_choice(count_sector_0, count_sector_1)
     IN /\ count_sector_0' = r.cs0
        /\ count_sector_1' = r.cs1
        /\ IF ok
           THEN /\ card' = write_card_block(card, Block1, count_block(r.cs1))
                /\ sd_writes' = Append(sd_writes, Block1)
                /\ sd_pc' = "write0"
                /\ UNCHANGED sd_result
           ELSE /\ sd_return("false")
                /\ UNCHANGED << card, sd_writes >>
  /\ UNCHANGED << data, card_before, appends, done, done_before,
                  millis, cfgVars, ctlVars, histVars, setupVars, crcVars, uiVars, xferVars >>

\* save_data_point(), lines 1118-1141: when the counts differ, the choice
\* and the write of block 1; ok: write_card_block() succeeds
save_repair(ok) ==
  /\ sd_pc = "repair"
  /\ LET r == repair_choice(count_sector_0, count_sector_1)
     IN /\ count_sector_0' = r.cs0
        /\ count_sector_1' = r.cs1
        /\ IF count_sector_0.count # count_sector_1.count
           THEN IF ok
                THEN /\ card' = write_card_block(card, Block1,
                                                 count_block(r.cs1))
                     /\ sd_writes' = Append(sd_writes, Block1)
                     /\ sd_pc' = "write0"
                     /\ UNCHANGED sd_result
                ELSE /\ sd_return("false")
                     /\ UNCHANGED << card, sd_writes >>
           ELSE /\ sd_pc' = "write0"
                /\ UNCHANGED << card, sd_writes, sd_result >>
  /\ UNCHANGED << data, card_before, appends, done, done_before,
                  millis, cfgVars, ctlVars, histVars, setupVars, crcVars, uiVars, xferVars >>

\* mutant of save_write0: a failed write of block 0 is ignored and the
\* append goes on to block 1
save_write0_continues(ok) ==
  /\ sd_pc = "write0"
  /\ LET n == AddU32(count_sector_0.count, 1)
         cs == [count |-> n, crc |-> calculate_crc8(n)]
     IN /\ count_sector_0' = cs
        /\ sd_pc' = "write1"
        /\ UNCHANGED sd_result
        /\ IF ok
           THEN /\ card' = write_card_block(card, Block0, count_block(cs))
                /\ sd_writes' = Append(sd_writes, Block0)
           ELSE UNCHANGED << card, sd_writes >>
  /\ UNCHANGED << data, count_sector_1, card_before, appends, done,
                  done_before, millis, cfgVars, ctlVars, histVars, setupVars, crcVars, uiVars, xferVars >>

\* save_data_point(), lines 1144-1151
save_write0(ok) ==
  /\ sd_pc = "write0"
  /\ LET n == AddU32(count_sector_0.count, 1)
         cs == [count |-> n, crc |-> calculate_crc8(n)]
     IN /\ count_sector_0' = cs
        /\ IF ok
           THEN /\ card' = write_card_block(card, Block0, count_block(cs))
                /\ sd_writes' = Append(sd_writes, Block0)
                /\ sd_pc' = "write1"
                /\ UNCHANGED sd_result
           ELSE /\ sd_return("false")
                /\ UNCHANGED << card, sd_writes >>
  /\ UNCHANGED << data, count_sector_1, card_before, appends, done,
                  done_before, millis, cfgVars, ctlVars, histVars, setupVars, crcVars, uiVars, xferVars >>

\* save_data_point(), lines 1153-1156
save_write1(ok) ==
  /\ sd_pc = "write1"
  /\ IF ok
     THEN /\ card' = write_card_block(card, Block1,
                                      count_block(count_sector_0))
          /\ sd_writes' = Append(sd_writes, Block1)
          /\ sd_pc' = "record"
          /\ UNCHANGED sd_result
     ELSE /\ sd_return("false")
          /\ UNCHANGED << card, sd_writes >>
  /\ UNCHANGED << data, count_sector_0, count_sector_1, card_before,
                  appends, done, done_before,
                  millis, cfgVars, ctlVars, histVars, setupVars, crcVars, uiVars, xferVars >>

\* save_data_point(), lines 1159-1162 and 1186
save_record(ok) ==
  /\ sd_pc = "record"
  /\ IF ok
     THEN /\ card' = write_card_block(card,
                                      AddU32(count_sector_0.count, 2),
                                      data_block(data))
          /\ sd_writes' = Append(sd_writes,
                                 AddU32(count_sector_0.count, 2))
          /\ done' = done \cup {[count |-> count_sector_0.count,
                                  rec |-> data_block(data)]}
          /\ sd_return("true")
     ELSE /\ sd_return("false")
          /\ UNCHANGED << card, sd_writes, done >>
  /\ UNCHANGED << data, count_sector_0, count_sector_1, card_before,
                  appends, done_before,
                  millis, cfgVars, ctlVars, histVars, setupVars, crcVars, uiVars, xferVars >>

\* the controller at boot with a card whose count blocks hold any of the
\* contents above
InitLog ==
  /\ millis = 0
  /\ active_config = freezer_config
  /\ dirty_config = active_config
  /\ config_is_dirty = FALSE
  /\ current_state = freezer_state
  /\ compressor_turned_on_at = 0
  /\ compressor_turned_off_at = 0
  /\ reached_target_temperature_at = 0
  /\ exceeded_max_runtime_at = 0
  /\ startup_delay_over = FALSE
  /\ relay = LOW
  /\ relay_written = FALSE
  /\ halted = FALSE
  /\ last_log = "none"
  /\ branch = "none"
  /\ override = FALSE
  /\ uptime = 0
  /\ delay_edited = FALSE
  /\ on_for = -1
  /\ off_for = -1
  /\ within_for = -1
  /\ mr_cooldown = "none"
  /\ logging_enabled = TRUE
  /\ init_pc = "done"
  /\ init_i = 0
  /\ init_result = (IF logging_enabled THEN "true" ELSE "false")
  /\ commands = (IF logging_enabled THEN AcceptedBringUp ELSE RefusedBringUp)
  /\ edit_mode = FALSE
  /\ screen_index = HOME_SCREEN
  /\ persisted_config = active_config
  /\ loop_pc = "top"
  /\ edits = 0
  /\ card \in [{Block0, Block1} -> CardCountBlocks]
  /\ sd_pc = "idle"
  /\ data = CHOOSE d \in DataPoints : TRUE
  /\ count_sector_0 = EmptySector
  /\ count_sector_1 = EmptySector
  /\ sd_result = "none"
  /\ card_before = card
  /\ appends = 0
  /\ sd_writes = << >>
  /\ done = {}
  /\ done_before = {}
  /\ card_op = "read"
  /\ xfer_pc = "idle"
  /\ polls = 0
  /\ op_result = "none"
  /\ op_polls = 0
  /\ r_byte = 255
  /\ NoChecksum

\* appends to the card, one after the other
NextLog ==
  \/ \E d \in DataPoints : save_data_point(d)
  \/ \E ok \in BOOLEAN : save_read0(ok)
  \/ \E ok \in BOOLEAN : save_read1(ok)
  \/ \E ok \in BOOLEAN : save_repair(ok)
  \/ \E ok \in BOOLEAN : save_write0(ok)
  \/ \E ok \in BOOLEAN : save_write1(ok)
  \/ \E ok \in BOOLEAN : save_record(ok)

SpecLog == InitLog /\ [][NextLog]_vars


\* ------------------------------------------------------------- power loss

\* a < b as uint32_t values
LessU32(a, b) ==
  \E i \in 1..4 : a[i] < b[i] /\ \A j \in (i + 1)..4 : a[j] = b[j]

\* the first k bytes of n followed by the last bytes of o
PrefixMix(o, n, k) == [i \in 1..Len(o) |-> IF i <= k THEN n[i] ELSE o[i]]

\* What a block may hold when power is lost while write_card_block() writes
\* head n over head o: the leading bytes new and the rest old, or one of
\* the two counts with a checksum byte that is not its checksum; in each
\* case a block whose checksum does not match its count
TornHeads(o, n) ==
  { h \in { PrefixMix(o, n, k) : k \in 0..5 }
            \cup { SubSeq(x, 1, 4)
                     \o << (calculate_crc8(SubSeq(x, 1, 4)) + 1) % 256 >> :
                     x \in {o, n} } :
      h[5] # calculate_crc8(SubSeq(h, 1, 4)) }

\* the head of the block at addr, zeros for a block never written
HeadAt(addr) ==
  IF addr \in DOMAIN card THEN card[addr].head ELSE << 0, 0, 0, 0, 0 >>

\* the write_card_block() call save_data_point() makes at sd_pc, if any
PendingWrites ==
  IF sd_pc = "repair" /\ count_sector_0.count # count_sector_1.count
  THEN { [addr |-> Block1,
          block |-> count_block(repair_choice(count_sector_0,
                                              count_sector_1).cs1)] }
  ELSE IF sd_pc = "write0"
  THEN LET n == AddU32(count_sector_0.count, 1)
       IN { [addr |-> Block0,
             block |-> count_block([count |-> n,
                                    crc |-> calculate_crc8(n)])] }
  ELSE IF sd_pc = "write1"
  THEN { [addr |-> Block1, block |-> count_block(count_sector_0)] }
  ELSE IF sd_pc = "record"
  THEN { [addr |-> AddU32(count_sector_0.count, 2),
          block |-> data_block(data)] }
  ELSE {}

\* the controller after a reset: save_data_point() is not running
reset_controller ==
  /\ sd_pc' = "idle"
  /\ sd_result' = "lost"
  /\ count_sector_0' = EmptySector
  /\ count_sector_1' = EmptySector
  /\ UNCHANGED << data, card_before, appends, done, done_before,
                  millis, cfgVars, ctlVars, histVars, setupVars, crcVars, uiVars, xferVars >>

\* power is lost inside save_data_point(), between two of its block
\* transfers: the card stays as it is
power_loss ==
  /\ sd_pc # "idle"
  /\ reset_controller
  /\ UNCHANGED << card, sd_writes >>

\* power is lost during the write_card_block() at sd_pc: the block is torn
power_loss_torn ==
  /\ sd_pc # "idle"
  /\ \E w \in PendingWrites :
       \E h \in TornHeads(HeadAt(w.addr), w.block.head) :
         /\ card' = write_card_block(card, w.addr,
                                     [head |-> h, tail |-> 0])
         /\ sd_writes' = Append(sd_writes, w.addr)
  /\ reset_controller

\* the counts a card with agreeing count blocks holds at boot
BootCounts == { Uint32(3, 0, 0, 0), Uint32(255, 0, 0, 0) }

\* the record of an append of before boot: not known
NoRecord == [head |-> << >>, tail |-> 0]

\* boot with a card whose count blocks agree and have the right checksum;
\* the controller itself is as in InitLog
InitPower ==
  /\ millis = 0
  /\ active_config = freezer_config
  /\ dirty_config = active_config
  /\ config_is_dirty = FALSE
  /\ current_state = freezer_state
  /\ compressor_turned_on_at = 0
  /\ compressor_turned_off_at = 0
  /\ reached_target_temperature_at = 0
  /\ exceeded_max_runtime_at = 0
  /\ startup_delay_over = FALSE
  /\ relay = LOW
  /\ relay_written = FALSE
  /\ halted = FALSE
  /\ last_log = "none"
  /\ branch = "none"
  /\ override = FALSE
  /\ uptime = 0
  /\ delay_edited = FALSE
  /\ on_for = -1
  /\ off_for = -1
  /\ within_for = -1
  /\ mr_cooldown = "none"
  /\ logging_enabled = TRUE
  /\ init_pc = "done"
  /\ init_i = 0
  /\ init_result = (IF logging_enabled THEN "true" ELSE "false")
  /\ commands = (IF logging_enabled THEN AcceptedBringUp ELSE RefusedBringUp)
  /\ edit_mode = FALSE
  /\ screen_index = HOME_SCREEN
  /\ persisted_config = active_config
  /\ loop_pc = "top"
  /\ edits = 0
  /\ \E n \in BootCounts :
       /\ card = [a \in {Block0, Block1} |->
                    count_block([count |-> n, crc |-> calculate_crc8(n)])]
       /\ done = {[count |-> n, rec |-> NoRecord]}
  /\ sd_pc = "idle"
  /\ data = CHOOSE d \in DataPoints : TRUE
  /\ count_sector_0 = EmptySector
  /\ count_sector_1 = EmptySector
  /\ sd_result = "none"
  /\ card_before = card
  /\ appends = 0
  /\ sd_writes = << >>
  /\ done_before = done
  /\ card_op = "read"
  /\ xfer_pc = "idle"
  /\ polls = 0
  /\ op_result = "none"
  /\ op_polls = 0
  /\ r_byte = 255
  /\ NoChecksum

\* appends to the card, and power lost at any point of one
NextPower ==
  \/ \E d \in DataPoints : save_data_point(d)
  \/ save_read0(TRUE)
  \/ save_read1(TRUE)
  \/ save_repair(TRUE)
  \/ save_write0(TRUE)
  \/ save_write1(TRUE)
  \/ save_record(TRUE)
  \/ power_loss
  \/ power_loss_torn

SpecPower == InitPower /\ [][NextPower]_vars

\* ------------------------------------------------------------- logged ticks

\* A block read or write of save_data_point() never returns: the card has
\* answered the command and then sends no data token, or stays busy
card_never_answers ==
  /\ sd_pc \in {"read0", "read1"} \/ PendingWrites # {}
  /\ sd_pc' = "hung"
  /\ UNCHANGED << card, data, count_sector_0, count_sector_1, sd_result,
                  card_before, appends, sd_writes, done, done_before,
                  millis, cfgVars, ctlVars, histVars, setupVars, crcVars, uiVars, xferVars >>

\* boot with or without a card; the card's count blocks agree
InitTickLog ==
  /\ millis = 0
  /\ active_config = freezer_config
  /\ dirty_config = active_config
  /\ config_is_dirty = FALSE
  /\ current_state = freezer_state
  /\ compressor_turned_on_at = 0
  /\ compressor_turned_off_at = 0
  /\ reached_target_temperature_at = 0
  /\ exceeded_max_runtime_at = 0
  /\ startup_delay_over = FALSE
  /\ relay = LOW
  /\ relay_written = FALSE
  /\ halted = FALSE
  /\ last_log = "none"
  /\ branch = "none"
  /\ override = FALSE
  /\ uptime = 0
  /\ delay_edited = FALSE
  /\ on_for = -1
  /\ off_for = -1
  /\ within_for = -1
  /\ mr_cooldown = "none"
  /\ logging_enabled \in BOOLEAN
  /\ init_pc = "done"
  /\ init_i = 0
  /\ init_result = (IF logging_enabled THEN "true" ELSE "false")
  /\ commands = (IF logging_enabled THEN AcceptedBringUp ELSE RefusedBringUp)
  /\ edit_mode = FALSE
  /\ screen_index = HOME_SCREEN
  /\ persisted_config = active_config
  /\ loop_pc = "top"
  /\ edits = 0
  /\ card = [a \in {Block0, Block1} |->
               count_block([count |-> Uint32(3, 0, 0, 0),
                            crc |-> calculate_crc8(Uint32(3, 0, 0, 0))])]
  /\ sd_pc = "idle"
  /\ data = CHOOSE d \in DataPoints : TRUE
  /\ count_sector_0 = EmptySector
  /\ count_sector_1 = EmptySector
  /\ sd_result = "none"
  /\ card_before = card
  /\ appends = 0
  /\ sd_writes = << >>
  /\ done = {}
  /\ done_before = {}
  /\ card_op = "read"
  /\ xfer_pc = "idle"
  /\ polls = 0
  /\ op_result = "none"
  /\ op_polls = 0
  /\ r_byte = 255
  /\ NoChecksum

\* the control loop with its logging: every refresh runs save_data_point()
\* to its end before the next one starts
NextTickLog ==
  \/ \E dt \in TickSteps, n \in Readings : Tick(dt, n[1], n[2])
  \/ \E ok \in BOOLEAN : save_read0(ok)
  \/ \E ok \in BOOLEAN : save_read1(ok)
  \/ \E ok \in BOOLEAN : save_repair(ok)
  \/ \E ok \in BOOLEAN : save_write0(ok)
  \/ \E ok \in BOOLEAN : save_write1(ok)
  \/ \E ok \in BOOLEAN : save_record(ok)
  \/ card_never_answers

SpecTickLog == InitTickLog /\ [][NextTickLog]_vars

\* ------------------------------------------------------------- bring-up

\* init_sd_card() returns r
init_return(r) ==
  /\ init_pc' = "return"
  /\ init_result' = r

\* init_sd_card(), lines 1212-1219: CMD0 and the test of response r
init_reset(r) ==
  /\ init_pc = "cmd0"
  /\ commands' = Append(commands, [cmd |-> 0, arg |-> 0, response |-> r])
  /\ IF r # 1
     THEN init_return("false")
     ELSE init_pc' = "cmd8" /\ UNCHANGED init_result
  /\ UNCHANGED << logging_enabled, init_i, millis, cfgVars, ctlVars,
                  histVars, crcVars, uiVars, sdVars,
                  xferVars >>

\* init_sd_card(), lines 1224-1235: CMD8, the test of response r, and the
\* start of the loop
init_interface_check(r) ==
  /\ init_pc = "cmd8"
  /\ commands' = Append(commands, [cmd |-> 8, arg |-> 426, response |-> r])
  /\ IF r # 1
     THEN init_return("false") /\ UNCHANGED init_i
     ELSE init_pc' = "cmd55" /\ init_i' = 0 /\ UNCHANGED init_result
  /\ UNCHANGED << logging_enabled, millis, cfgVars, ctlVars,
                  histVars, crcVars, uiVars, sdVars,
                  xferVars >>

\* init_sd_card(), lines 1238-1245: CMD55 and the test of response r
init_app_cmd(r) ==
  /\ init_pc = "cmd55"
  /\ commands' = Append(commands, [cmd |-> 55, arg |-> 0, response |-> r])
  /\ IF r # 1
     THEN init_return("false")
     ELSE init_pc' = "cmd41" /\ UNCHANGED init_result
  /\ UNCHANGED << logging_enabled, init_i, millis, cfgVars, ctlVars,
                  histVars, crcVars, uiVars, sdVars,
                  xferVars >>

\* init_sd_card(), lines 1248-1265: ACMD41, the break on response 0x00, the
\* loop's i++ and test, and the return after the loop
init_op_cond(r) ==
  /\ init_pc = "cmd41"
  /\ commands' = Append(commands,
                        [cmd |-> 41, arg |-> 1073741824, response |-> r])
  /\ IF r = 0
     THEN init_return("true") /\ UNCHANGED init_i
     ELSE /\ init_i' = init_i + 1
          /\ IF init_i + 1 < retries
             THEN init_pc' = "cmd55" /\ UNCHANGED init_result
             ELSE init_return("true")
  /\ UNCHANGED << logging_enabled, millis, cfgVars, ctlVars,
                  histVars, crcVars, uiVars, sdVars,
                  xferVars >>

\* void initialize_logging(), after init_sd_card() has returned
initialize_logging ==
  /\ init_pc = "return"
  /\ init_pc' = "done"
  /\ logging_enabled' = (logging_enabled \/ init_result = "true")
  /\ UNCHANGED << init_i, init_result, commands, millis, cfgVars, ctlVars,
                  histVars, crcVars, uiVars, sdVars,
                  xferVars >>

\* boot: setup() is about to call initialize_logging()
InitBoot ==
  /\ millis = 0
  /\ active_config = freezer_config
  /\ dirty_config = active_config
  /\ config_is_dirty = FALSE
  /\ current_state = freezer_state
  /\ compressor_turned_on_at = 0
  /\ compressor_turned_off_at = 0
  /\ reached_target_temperature_at = 0
  /\ exceeded_max_runtime_at = 0
  /\ startup_delay_over = FALSE
  /\ relay = LOW
  /\ relay_written = FALSE
  /\ halted = FALSE
  /\ last_log = "none"
  /\ branch = "none"
  /\ override = FALSE
  /\ uptime = 0
  /\ delay_edited = FALSE
  /\ on_for = -1
  /\ off_for = -1
  /\ within_for = -1
  /\ mr_cooldown = "none"
  /\ logging_enabled = FALSE
  /\ init_pc = "cmd0"
  /\ init_i = 0
  /\ init_result = "none"
  /\ commands = << >>
  /\ edit_mode = FALSE
  /\ screen_index = HOME_SCREEN
  /\ persisted_config = active_config
  /\ loop_pc = "top"
  /\ edits = 0
  /\ card = [a \in {Block0, Block1} |->
               count_block([count |-> Uint32(3, 0, 0, 0),
                            crc |-> calculate_crc8(Uint32(3, 0, 0, 0))])]
  /\ sd_pc = "idle"
  /\ data = CHOOSE d \in DataPoints : TRUE
  /\ count_sector_0 = EmptySector
  /\ count_sector_1 = EmptySector
  /\ sd_result = "none"
  /\ card_before = card
  /\ appends = 0
  /\ sd_writes = << >>
  /\ done = {}
  /\ done_before = {}
  /\ card_op = "read"
  /\ xfer_pc = "idle"
  /\ polls = 0
  /\ op_result = "none"
  /\ op_polls = 0
  /\ r_byte = 255
  /\ NoChecksum

\* what read_sensors() finds in the runs that start with the bring-up: a
\* warm freezer with a cool compressor, and a reading out of range
BootReadings == { << -17, 40 >>, << 150, 40 >> }

\* setup()'s bring-up of the card, then the control loop with its logging
NextBoot ==
  \/ \E r \in InitResponses : init_reset(r)
  \/ \E r \in InitResponses : init_interface_check(r)
  \/ \E r \in InitResponses : init_app_cmd(r)
  \/ \E r \in InitResponses : init_op_cond(r)
  \/ initialize_logging
  \/ /\ init_pc = "done"
     /\ \E dt \in TickSteps, n \in BootReadings : Tick(dt, n[1], n[2])
  \/ \E ok \in BOOLEAN : save_read0(ok)
  \/ \E ok \in BOOLEAN : save_read1(ok)
  \/ \E ok \in BOOLEAN : save_repair(ok)
  \/ \E ok \in BOOLEAN : save_write0(ok)
  \/ \E ok \in BOOLEAN : save_write1(ok)
  \/ \E ok \in BOOLEAN : save_record(ok)

SpecBoot == InitBoot /\ [][NextBoot]_vars

\* ------------------------------------------------------------- the SPI bus

\* read_card_response(), line 1302: the number of bytes it waits for
ResponseTries == 10

\* what SPI.transfer(0xFF) may return: 0x00, the 'data accepted' response
\* 0x05, the data token 0xFE, and 0xFF, which is also what an absent card
\* gives
DeviceBytes == { 0, 5, 254, 255 }

\* the call at hand returns r
card_return(r) ==
  /\ xfer_pc' = "idle"
  /\ op_result' = r
  /\ polls' = 0

\* one more pass through the wait loop at hand
poll_again ==
  /\ polls' = polls + 1
  /\ UNCHANGED << xfer_pc, op_result >>

\* read_card_block() or write_card_block() is called: send_card_command()
\* starts with wait_card_busy()
card_call(op) ==
  /\ xfer_pc = "idle"
  /\ card_op' = op
  /\ xfer_pc' = "busy_wait"
  /\ polls' = 0
  /\ op_polls' = 0
  /\ UNCHANGED << op_result, r_byte, millis, cfgVars, ctlVars, histVars, setupVars, crcVars, uiVars, sdVars >>

\* wait_card_busy(), lines 1324-1337: one pass; b is the byte received.
\* send_card_command() sends the command whatever wait_card_busy() returns
wait_card_busy(b) ==
  /\ xfer_pc = "busy_wait"
  /\ op_polls' = op_polls + 1
  /\ r_byte' = b
  /\ IF b = 255 \/ polls + 1 > BusyTimeoutPolls
     THEN /\ xfer_pc' = "response"
          /\ polls' = 0
          /\ UNCHANGED op_result
     ELSE poll_again
  /\ UNCHANGED << card_op, millis, cfgVars, ctlVars, histVars, setupVars, crcVars, uiVars, sdVars >>

\* read_card_response(), lines 1302-1313, and the test of its result at
\* lines 1348 and 1395: one pass
read_card_response(b) ==
  /\ xfer_pc = "response"
  /\ op_polls' = op_polls + 1
  /\ IF b # 255
     THEN IF b = 0
          THEN /\ xfer_pc' = IF card_op = "read" THEN "token"
                             ELSE "data_response"
               /\ polls' = 0
               /\ UNCHANGED op_result
          ELSE card_return("false")
     ELSE IF polls + 1 = ResponseTries
          THEN card_return("false")
          ELSE poll_again
  /\ UNCHANGED << card_op, r_byte, millis, cfgVars, ctlVars, histVars, setupVars, crcVars, uiVars, sdVars >>

\* read_card_block(), line 1357: one pass of the wait for the data token;
\* lines 1361-1384 then read the block and return true
read_card_block_token(b) ==
  /\ xfer_pc = "token"
  /\ op_polls' = op_polls + 1
  /\ IF b = 254
     THEN card_return("true")
     ELSE polls < MaxPolls /\ poll_again
  /\ UNCHANGED << card_op, r_byte, millis, cfgVars, ctlVars, histVars, setupVars, crcVars, uiVars, sdVars >>

\* write_card_block(), lines 1403-1432: the block is sent and the data
\* response is tested
write_card_block_response(b) ==
  /\ xfer_pc = "data_response"
  /\ op_polls' = op_polls + 1
  /\ IF b % 32 # 5
     THEN card_return("false")
     ELSE /\ xfer_pc' = "write_busy"
          /\ polls' = 0
          /\ UNCHANGED op_result
  /\ UNCHANGED << card_op, r_byte, millis, cfgVars, ctlVars, histVars, setupVars, crcVars, uiVars, sdVars >>

\* write_card_block(), line 1435: one pass of the wait for the card to be
\* ready; lines 1437-1446 then return true
write_card_block_busy(b) ==
  /\ xfer_pc = "write_busy"
  /\ op_polls' = op_polls + 1
  /\ IF b # 0
     THEN card_return("true")
     ELSE polls < MaxPolls /\ poll_again
  /\ UNCHANGED << card_op, r_byte, millis, cfgVars, ctlVars, histVars, setupVars, crcVars, uiVars, sdVars >>

\* block reads and writes on the bus, the card answering as it likes
NextCard ==
  \/ \E op \in {"read", "write"} : card_call(op)
  \/ \E b \in DeviceBytes : wait_card_busy(b)
  \/ \E b \in DeviceBytes : read_card_response(b)
  \/ \E b \in DeviceBytes : read_card_block_token(b)
  \/ \E b \in DeviceBytes : write_card_block_response(b)
  \/ \E b \in DeviceBytes : write_card_block_busy(b)

SpecCard == Init /\ [][NextCard]_vars

\* ------------------------------------------------------------- checksums

\* sizeof(freezer_state_data_point): 4 magic bytes, ms_since_startup (4),
\* the freezer_config (4 + 4 + 2 + 2 + 2 + 4 + 2), the freezer_state
\* (4 + 4 + 1 + 1 + 1) and the crc byte
RecordLen == 40

\* the bytes of the freezer_state_data_point log_state() makes of the
\* default configuration and state, with ms_since_startup = ms (its four
\* bytes, lowest first) and status = st; the crc byte is still 0
RecordBytes(ms, st) ==
  << 70, 90, 90, 88 >> \o ms
    \o << 70, 48, 48, 50, 0, 0, 144, 193, 60, 0, 5, 0, 44, 1,
          0, 0, 52, 66, 2, 0 >>
    \o << 0, 0, 0, 0, 0, 0, 0, 0, 0, 0, st >>
    \o << 0 >>

\* the byte spans calculate_crc8() is called on: counts of the count
\* blocks, and records
Spans ==
  CardCounts
    \cup { RecordBytes(Uint32(0, 0, 0, 0), off),
           RecordBytes(Uint32(232, 3, 0, 0), cooling),
           [k \in 1..RecordLen |-> 255] }

\* 2^n
RECURSIVE Pow2(_)
Pow2(n) == IF n = 0 THEN 1 ELSE 2 * Pow2(n - 1)

\* bytes with bit k flipped; bit 0 is the lowest bit of the first byte
FlipBit(bytes, k) ==
  [bytes EXCEPT ![(k \div 8) + 1] = xor_bits(@, Pow2(k % 8), 8)]

\* calculate_crc8() is called on crc_span, lines 1045-1047
crc_call ==
  /\ crc_pc = "idle"
  /\ Len(crc_results) < 2
  /\ crc_pc' = "loop"
  /\ crc_i' = 0
  /\ crc_reg' = 0
  /\ UNCHANGED << crc_span, crc_results, crc_flip, millis, cfgVars, ctlVars,
                  histVars, setupVars, uiVars, sdVars, xferVars >>

\* calculate_crc8(), lines 1049-1064: one pass of the outer loop
crc_byte ==
  /\ crc_pc = "loop"
  /\ crc_i < Len(crc_span)
  /\ crc_reg' = crc8_rounds(xor_bits(crc_reg, crc_span[crc_i + 1], 8), 8)
  /\ crc_i' = crc_i + 1
  /\ UNCHANGED << crc_span, crc_pc, crc_results, crc_flip, millis, cfgVars,
                  ctlVars, histVars, setupVars, uiVars, sdVars, xferVars >>

\* calculate_crc8(), line 1066: return crc
crc_return ==
  /\ crc_pc = "loop"
  /\ crc_i = Len(crc_span)
  /\ crc_pc' = "idle"
  /\ crc_results' = Append(crc_results, crc_reg)
  /\ UNCHANGED << crc_span, crc_i, crc_reg, crc_flip, millis, cfgVars, ctlVars,
                  histVars, setupVars, uiVars, sdVars, xferVars >>

\* between two calls, bit k of the span is flipped
flip_bit(k) ==
  /\ crc_pc = "idle"
  /\ Len(crc_results) = 1
  /\ crc_flip = -1
  /\ crc_span' = FlipBit(crc_span, k)
  /\ crc_flip' = k
  /\ UNCHANGED << crc_pc, crc_i, crc_reg, crc_results, millis, cfgVars, ctlVars,
                  histVars, setupVars, uiVars, sdVars, xferVars >>

\* the controller at rest, and a span to take the checksum of
InitCrc ==
  /\ millis = 0
  /\ active_config = freezer_config
  /\ dirty_config = active_config
  /\ config_is_dirty = FALSE
  /\ current_state = freezer_state
  /\ compressor_turned_on_at = 0
  /\ compressor_turned_off_at = 0
  /\ reached_target_temperature_at = 0
  /\ exceeded_max_runtime_at = 0
  /\ startup_delay_over = FALSE
  /\ relay = LOW
  /\ relay_written = FALSE
  /\ halted = FALSE
  /\ last_log = "none"
  /\ branch = "none"
  /\ override = FALSE
  /\ uptime = 0
  /\ delay_edited = FALSE
  /\ on_for = -1
  /\ off_for = -1
  /\ within_for = -1
  /\ mr_cooldown = "none"
  /\ logging_enabled = FALSE
  /\ init_pc = "done"
  /\ init_i = 0
  /\ init_result = (IF logging_enabled THEN "true" ELSE "false")
  /\ commands = (IF logging_enabled THEN AcceptedBringUp ELSE RefusedBringUp)
  /\ edit_mode = FALSE
  /\ screen_index = HOME_SCREEN
  /\ persisted_config = active_config
  /\ loop_pc = "top"
  /\ edits = 0
  /\ card = [a \in {Block0, Block1} |-> count_block(EmptySector)]
  /\ sd_pc = "idle"
  /\ data = CHOOSE d \in DataPoints : TRUE
  /\ count_sector_0 = EmptySector
  /\ count_sector_1 = EmptySector
  /\ sd_result = "none"
  /\ card_before = card
  /\ appends = 0
  /\ sd_writes = << >>
  /\ done = {}
  /\ done_before = {}
  /\ card_op = "read"
  /\ xfer_pc = "idle"
  /\ polls = 0
  /\ op_result = "none"
  /\ op_polls = 0
  /\ r_byte = 255
  /\ crc_span \in Spans
  /\ crc_pc = "idle"
  /\ crc_i = 0
  /\ crc_reg = 0
  /\ crc_results = << >>
  /\ crc_flip = -1

\* two calls of calculate_crc8() on a span, with or without a bit flipped
\* in between
NextCrc ==
  \/ crc_call
  \/ crc_byte
  \/ crc_return
  \/ \E k \in 0..(8 * Len(crc_span) - 1) : flip_bit(k)

SpecCrc == InitCrc /\ [][NextCrc]_vars

\* ------------------------------------------------------------- the menu's steps

\* what the steps of loop() and of the interrupt below leave alone
ui_frame ==
  UNCHANGED << millis, ctlVars, histVars, setupVars, crcVars, sdVars, xferVars >>

\* loop(), lines 349-355: a refresh is due and starts; a pending edit is
\* applied
loop_apply_config ==
  /\ loop_pc = "top"
  /\ active_config' = config_at_tick
  /\ config_is_dirty' = FALSE
  /\ loop_pc' = "evaluating"
  /\ UNCHANGED << dirty_config, edit_mode, screen_index, persisted_config,
                  edits >>
  /\ ui_frame

\* loop(), lines 357-359: update_state() has run to its end; of the
\* variables of the menu it only reads active_config
loop_update_state ==
  /\ loop_pc = "evaluating"
  /\ loop_pc' = "input"
  /\ UNCHANGED << cfgVars, edit_mode, screen_index, persisted_config,
                  edits >>
  /\ ui_frame

\* loop(), line 349: no refresh is due
loop_no_refresh ==
  /\ loop_pc = "top"
  /\ loop_pc' = "input"
  /\ UNCHANGED << cfgVars, edit_mode, screen_index, persisted_config,
                  edits >>
  /\ ui_frame

\* handle_input(), lines 937-983 and 1015-1017; move is what the encoder
\* has done since the last call: "none", "cw" (direction true) or "ccw".
\* Outside edit mode screen_index is stepped, and its range test is still
\* to come.  In edit mode the value of the entry is changed, and its range
\* test is still to come; with screen_index outside 1..6 the entry is read
\* from outside menu_entries and the value is written through the pointer
\* found there: any of the two configurations may be hit, or neither
handle_input(move) ==
  /\ loop_pc = "input"
  /\ IF move = "none"
     THEN /\ loop_pc' = "top"
          /\ UNCHANGED << active_config, dirty_config, screen_index, edits >>
     ELSE IF ~edit_mode
     THEN /\ screen_index' = screen_index + (IF move = "cw" THEN 1 ELSE -1)
          /\ loop_pc' = "wrap"
          /\ UNCHANGED << active_config, dirty_config, edits >>
     ELSE IF screen_index \in 1..Len(menu_entries)
     THEN /\ edits < MaxEdits
          /\ edits' = edits + 1
          /\ LET entry == menu_entries[screen_index]
             IN dirty_config' =
                  [dirty_config EXCEPT ![entry.value] =
                     IF move = "cw" THEN @ + entry.increment
                     ELSE @ - entry.increment]
          /\ loop_pc' = "clamp"
          /\ UNCHANGED << active_config, screen_index >>
     ELSE /\ edits < MaxEdits
          /\ edits' = edits + 1
          /\ \E hit \in {"neither", "dirty_config", "active_config"},
                c \in StoredConfigs :
               /\ dirty_config' = IF hit = "dirty_config" THEN c
                                  ELSE dirty_config
               /\ active_config' = IF hit = "active_config" THEN c
                                   ELSE active_config
          /\ loop_pc' = "top"
          /\ UNCHANGED screen_index
  /\ UNCHANGED << config_is_dirty, edit_mode, persisted_config >>
  /\ ui_frame

\* handle_input(), lines 957-964: the range test of the stepped
\* screen_index
handle_input_wrap ==
  /\ loop_pc = "wrap"
  /\ screen_index' = IF screen_index < 0 THEN 7
                     ELSE IF screen_index > 7 THEN 0
                     ELSE screen_index
  /\ loop_pc' = "top"
  /\ UNCHANGED << cfgVars, edit_mode, persisted_config, edits >>
  /\ ui_frame

\* handle_input(), lines 984-1011: the range test of the changed value
handle_input_clamp ==
  /\ loop_pc = "clamp"
  /\ LET entry == menu_entries[screen_index]
     IN dirty_config' =
          [dirty_config EXCEPT ![entry.value] =
             IF @ < entry.min THEN entry.max
             ELSE IF @ > entry.max THEN entry.min
             ELSE @]
  /\ loop_pc' = "top"
  /\ UNCHANGED << active_config, config_is_dirty, edit_mode, screen_index,
                  persisted_config, edits >>
  /\ ui_frame

\* on_button_pressed(), lines 1020-1041, as the interrupt it is: it runs
\* between any two steps of loop(), and here it is past its 500 ms test
button_interrupt ==
  /\ screen_index # HOME_SCREEN
  /\ screen_index # INFO_SCREEN
  /\ IF edit_mode
     THEN /\ persisted_config' = dirty_config
          /\ config_is_dirty' = TRUE
     ELSE UNCHANGED << persisted_config, config_is_dirty >>
  /\ edit_mode' = ~edit_mode
  /\ UNCHANGED << active_config, dirty_config, screen_index, loop_pc,
                  edits >>
  /\ ui_frame

\* boot with one of the stored configurations
InitUI ==
  /\ millis = 0
  /\ active_config \in StoredConfigs
  /\ dirty_config = active_config
  /\ config_is_dirty = FALSE
  /\ current_state = freezer_state
  /\ compressor_turned_on_at = 0
  /\ compressor_turned_off_at = 0
  /\ reached_target_temperature_at = 0
  /\ exceeded_max_runtime_at = 0
  /\ startup_delay_over = FALSE
  /\ relay = LOW
  /\ relay_written = FALSE
  /\ halted = FALSE
  /\ last_log = "none"
  /\ branch = "none"
  /\ override = FALSE
  /\ uptime = 0
  /\ delay_edited = FALSE
  /\ on_for = -1
  /\ off_for = -1
  /\ within_for = -1
  /\ mr_cooldown = "none"
  /\ logging_enabled = FALSE
  /\ init_pc = "done"
  /\ init_i = 0
  /\ init_result = (IF logging_enabled THEN "true" ELSE "false")
  /\ commands = (IF logging_enabled THEN AcceptedBringUp ELSE RefusedBringUp)
  /\ edit_mode = FALSE
  /\ screen_index = HOME_SCREEN
  /\ persisted_config = active_config
  /\ loop_pc = "top"
  /\ edits = 0
  /\ card = [a \in {Block0, Block1} |-> count_block(EmptySector)]
  /\ sd_pc = "idle"
  /\ data = CHOOSE d \in DataPoints : TRUE
  /\ count_sector_0 = EmptySector
  /\ count_sector_1 = EmptySector
  /\ sd_result = "none"
  /\ card_before = card
  /\ appends = 0
  /\ sd_writes = << >>
  /\ done = {}
  /\ done_before = {}
  /\ card_op = "read"
  /\ xfer_pc = "idle"
  /\ polls = 0
  /\ op_result = "none"
  /\ op_polls = 0
  /\ r_byte = 255
  /\ NoChecksum

\* loop() and the button interrupt
NextUI ==
  \/ loop_apply_config
  \/ loop_update_state
  \/ loop_no_refresh
  \/ \E move \in {"none", "cw", "ccw"} : handle_input(move)
  \/ handle_input_wrap
  \/ handle_input_clamp
  \/ button_interrupt

SpecUI == InitUI /\ [][NextUI]_vars

\* ------------------------------------------------------------- claims

\* a step that is a tick: every tick moves the clock
TickStep == millis' # millis

\* the last tick ran to its end, through the startup gate or the evaluation
TickCompleted == branch \in {"gate", "eval"}

Overheating ==
  current_state.current_ntc2_temperature >= active_config.compressor_max_temp

DeadTimeMs == active_config.compressor_dead_time * MsPerMin
MaxRunTimeMs == active_config.compressor_max_run_time * MsPerMin
HysteresisMs == active_config.target_temperature_hysteresis_time * MsPerSec
StartupDelayMs == active_config.freezer_startup_delay * MsPerMin

\* C1: the compressor is on at the end of a tick only if that tick went
\* through the evaluation, commanded on and raised no override; a tick that
\* took the startup gate, and a halt, leave it off.
C1_OnOnlyIfCommandedAndNoOverride ==
  /\ current_state.actual_compressor_state =>
       /\ branch = "eval"
       /\ current_state.target_compressor_state = HIGH
       /\ ~override
  /\ relay = current_state.actual_compressor_state

\* C1 witness: an evaluated tick commanded on and an override kept the
\* compressor off
C1_Witness ==
  /\ branch = "eval"
  /\ current_state.target_compressor_state = HIGH
  /\ override
  /\ ~current_state.actual_compressor_state
  /\ current_state.status = dead_time

\* C2: an evaluated tick that commands on while the secondary temperature
\* is at or above the max safe temperature ends with status Overheat and the
\* compressor off, whatever the timers say.
C2_OverheatFirst ==
  (branch = "eval" /\ current_state.target_compressor_state = HIGH
     /\ Overheating)
    => /\ current_state.status = overheat
       /\ ~current_state.actual_compressor_state
       /\ ~relay

\* C2 witness: Overheat is reported on a tick inside the dead time of a
\* max-runtime shutdown, where both other overrides apply as well
C2_Witness ==
  /\ branch = "eval"
  /\ current_state.status = overheat
  /\ exceeded_max_runtime_at > 0
  /\ off_for > 0
  /\ off_for < DeadTimeMs

\* the readings of the last tick are a sensor fault
SensorFault ==
  \/ current_state.current_ntc1_temperature < -100
  \/ current_state.current_ntc1_temperature > 100
  \/ current_state.current_ntc2_temperature > 100

\* C3: a tick that reads a sensor fault, inside the startup delay or after
\* it, forces the compressor off and halts; once halted, nothing the control
\* loop owns changes again: no tick runs, and the compressor, the status,
\* the timers and the log stay as they are while the button interrupt still
\* fires.
C3_FaultHaltsForGood ==
  [][ /\ (TickStep /\ SensorFault') =>
           (halted' /\ ~current_state'.actual_compressor_state /\ ~relay')
      /\ (TickStep /\ ~SensorFault') => ~halted'
      /\ halted => (halted' /\ UNCHANGED << millis, active_config, ctlVars >>)
    ]_vars

\* C3 witness: the compressor was running when the fault was read, the halt
\* turned it off, and the button has been pressed since
C3_Witness ==
  /\ halted
  /\ off_for = 0
  /\ compressor_turned_off_at = millis
  /\ current_state.status = cooling
  /\ config_is_dirty
  /\ SensorFault

\* C4: the compressor never goes from off to on less than the dead time
\* after it was last turned off, wherever on the clock the turn-off fell; and
\* an evaluated tick that commands on while the compressor is off inside the
\* dead time reports DeadTime unless Overheat or MaxRuntime applies.
C4_DeadTimeRespected ==
  /\ (current_state.actual_compressor_state /\ on_for = 0 /\ off_for >= 0)
       => off_for >= DeadTimeMs
  /\ ( /\ branch = "eval"
       /\ current_state.target_compressor_state = HIGH
       /\ ~current_state.actual_compressor_state
       /\ off_for > 0
       /\ off_for < DeadTimeMs
       /\ current_state.status \notin {overheat, compressor_max_runtime} )
       => current_state.status = dead_time

\* C5: a tick at which the compressor has been on for the max run time or
\* longer ends with the compressor off, and with status MaxRuntime when it
\* commands on and the compressor is not overheating; so the compressor is
\* never on for the max run time plus the longest time between two ticks.
C5_MaxRuntimeShutsDown ==
  /\ (TickCompleted /\ on_for >= MaxRunTimeMs) =>
       /\ ~current_state.actual_compressor_state
       /\ ~relay
       /\ (current_state.target_compressor_state = HIGH /\ ~Overheating)
            => current_state.status = compressor_max_runtime
  /\ on_for < MaxRunTimeMs + TickMs + MaxJitter

\* C5 witness: the compressor had been on for exactly the max run time and
\* the tick turned it off with status MaxRuntime
C5_Witness ==
  /\ branch = "eval"
  /\ on_for = MaxRunTimeMs
  /\ off_for = 0
  /\ current_state.status = compressor_max_runtime
  /\ ~current_state.actual_compressor_state

\* C6: once the MaxRuntime override has turned the compressor off, every
\* following tick until the dead time has passed since that turn-off keeps
\* the compressor off and, when it commands on and the compressor is not
\* overheating, reports MaxRuntime; the first tick after the dead time
\* evaluates normally again, with the override cleared.
C6_MaxRuntimeCooldown ==
  branch = "eval" =>
    /\ mr_cooldown = "active" =>
         /\ ~current_state.actual_compressor_state
         /\ (current_state.target_compressor_state = HIGH /\ ~Overheating)
              => current_state.status = compressor_max_runtime
    /\ mr_cooldown = "over" =>
         /\ current_state.status # compressor_max_runtime
         /\ (current_state.target_compressor_state = HIGH /\ ~Overheating)
              => /\ exceeded_max_runtime_at = 0
                 /\ current_state.status = cooling
                 /\ current_state.actual_compressor_state

\* the primary reading of the last tick is above the target
AboveTarget ==
  current_state.current_ntc1_temperature > active_config.target_temperature

\* C7: an evaluated tick commands off, with status ReachedTarget, only if
\* the primary temperature has been within target on every tick for the
\* hysteresis time, counted from the first tick of the run; a tick above
\* target clears the timer and commands on, and the next within-target tick
\* starts the timer afresh; and a tick at which the run has lasted the
\* hysteresis time commands off with status ReachedTarget.
C7_HysteresisDwell ==
  branch = "eval" =>
    /\ current_state.target_compressor_state = LOW
         <=> current_state.status = reached_target
    /\ current_state.status = reached_target =>
         /\ within_for >= HysteresisMs
         /\ ~AboveTarget
         /\ ~current_state.actual_compressor_state
    /\ AboveTarget =>
         /\ reached_target_temperature_at = 0
         /\ current_state.target_compressor_state = HIGH
    /\ within_for = 0 =>
         /\ reached_target_temperature_at = millis
         /\ current_state.target_compressor_state = HIGH
    /\ within_for >= HysteresisMs => current_state.status = reached_target

\* C8: a tick that finds the gate not yet latched reports StartupDelay,
\* leaves the compressor off and latches the gate exactly when the time
\* since boot has reached the startup delay; without an edit of the delay
\* no tick evaluates before that time; once latched, the gate stays latched
\* and every later tick evaluates and reports another status, also after
\* the clock has wrapped below the delay or the delay has been edited up.
C8_StartupGateLatches ==
  [][ /\ TickStep =>
           /\ ~startup_delay_over =>
                /\ branch' \in {"gate", "halt"}
                /\ branch' = "gate" =>
                     /\ current_state'.status = startup_delay
                     /\ ~current_state'.actual_compressor_state
                     /\ ~relay'
                     /\ startup_delay_over' <=> (uptime' >= StartupDelayMs')
           /\ startup_delay_over =>
                /\ branch' \in {"eval", "halt"}
                /\ branch' = "eval" =>
                     current_state'.status # startup_delay
           /\ (uptime' < StartupDelayMs' /\ ~delay_edited') =>
                branch' # "eval"
      /\ startup_delay_over => startup_delay_over'
    ]_vars

\* C8 witness: the delay has been edited, the clock has wrapped to a value
\* below the delay, and the tick evaluated and turned the compressor on
C8_Witness ==
  /\ branch = "eval"
  /\ startup_delay_over
  /\ delay_edited
  /\ uptime = HistCap
  /\ millis < StartupDelayMs
  /\ current_state.status = cooling
  /\ current_state.actual_compressor_state

\* update_state() run once more right after the last tick, with the same
\* readings, the same configuration and the same clock value
SecondEvaluation ==
  update_state(Globals, active_config, millis,
               current_state.current_ntc1_temperature,
               current_state.current_ntc2_temperature).g

\* C9: after every tick, a second evaluation with the same sensor readings,
\* the same configuration and the same clock value leaves the same status,
\* the same commanded state and the same compressor output as the first.
C9_Idempotent ==
  TickCompleted =>
    /\ SecondEvaluation.current_state.status = current_state.status
    /\ SecondEvaluation.current_state.target_compressor_state
         = current_state.target_compressor_state
    /\ SecondEvaluation.current_state.actual_compressor_state
         = current_state.actual_compressor_state
    /\ SecondEvaluation.relay = relay

\* the count the repair rule agrees on for the card as it was when the
\* last append started: block 0's when both counts are equal or block 0's
\* checksum is right, else block 1's when its checksum is right, else
\* block 0's
AgreedCount ==
  LET b0 == sd_count_sector(card_before[Block0])
      b1 == sd_count_sector(card_before[Block1])
  IN IF b0.count = b1.count THEN b0.count
     ELSE IF b0.crc = calculate_crc8(b0.count) THEN b0.count
     ELSE IF b1.crc = calculate_crc8(b1.count) THEN b1.count
     ELSE b0.count

\* the append has returned true: every read and write of it succeeded
AppendSucceeded == sd_pc = "idle" /\ sd_result = "true"

\* C10: when an append has returned true, blocks 0 and 1 both hold the
\* agreed count of before the append plus one, with the CRC-8 of that count,
\* and the block at address new count + 2 holds the record; and once the
\* repair step is past, block 1 holds the agreed count.
C10_AppendPostcondition ==
  /\ AppendSucceeded =>
       LET n == AddU32(AgreedCount, 1)
           meta == count_block([count |-> n, crc |-> calculate_crc8(n)])
       IN /\ card[Block0] = meta
          /\ card[Block1] = meta
          /\ AddU32(n, 2) \in DOMAIN card
          /\ card[AddU32(n, 2)] = data_block(data)
  /\ sd_pc = "write0" =>
       sd_count_sector(card[Block1]).count = AgreedCount

\* the counts of blocks 0 and 1 differed when the last append started
CountsDisagreed ==
  sd_count_sector(card_before[Block0]).count
    # sd_count_sector(card_before[Block1]).count

\* the address of the block the repair rule picks as winner on the card as
\* it was when the last append started
WinnerBlock ==
  LET b0 == sd_count_sector(card_before[Block0])
      b1 == sd_count_sector(card_before[Block1])
  IN IF b0.crc = calculate_crc8(b0.count) THEN Block0
     ELSE IF b1.crc = calculate_crc8(b1.count) THEN Block1
     ELSE Block0

\* C11: when the counts read from blocks 0 and 1 disagree, then once the
\* repair step is past and before the incremented count is written, both
\* blocks on the card hold the count and checksum of the winner: the block
\* whose checksum is right, block 0 when neither is.
C11_RepairRewritesLoser ==
  (sd_pc = "write0" /\ CountsDisagreed) =>
    /\ card[Block0].head = card_before[WinnerBlock].head
    /\ card[Block1].head = card_before[WinnerBlock].head

\* C12: from count blocks that agree and have the right checksum, with
\* power lost at any point of any append, an append that returns true leaves
\* blocks 0 and 1 equal, with the right checksum and a count greater than
\* the count of every append completed before it, and every record of a
\* completed append is still in its block.
C12_PowerLossRecovered ==
  AppendSucceeded =>
    LET m == sd_count_sector(card[Block0])
    IN /\ card[Block0].head = card[Block1].head
       /\ m.crc = calculate_crc8(m.count)
       /\ \A d \in done_before : LessU32(d.count, m.count)
       /\ \A d \in done :
            d.rec # NoRecord =>
              /\ AddU32(d.count, 2) \in DOMAIN card
              /\ card[AddU32(d.count, 2)] = d.rec

\* C13: a repair step that finds the same count in both count sectors
\* writes no block, changes no block and leaves its two local variables as
\* they are, whatever the device would answer; and every repair step leaves
\* the two count sectors with equal counts, a state on which the repair
\* choice changes nothing.
C13_RepairIdempotent ==
  [][ sd_pc = "repair" =>
        /\ count_sector_0.count = count_sector_1.count =>
             /\ card' = card
             /\ sd_writes' = sd_writes
             /\ count_sector_0' = count_sector_0
             /\ count_sector_1' = count_sector_1
             /\ sd_pc' = "write0"
        /\ sd_pc' = "write0" =>
             /\ count_sector_0'.count = count_sector_1'.count
             /\ repair_choice(count_sector_0', count_sector_1')
                  = [cs0 |-> count_sector_0', cs1 |-> count_sector_1']
    ]_vars

\* C13 witness: the repair step is past, the counts agreed, and it wrote
\* nothing
C13_Witness ==
  /\ sd_pc = "write0"
  /\ ~CountsDisagreed
  /\ sd_writes = << >>
  /\ card = card_before
  /\ appends > 1

\* C14: every wait of a block read or write ends in bounded time, whatever
\* the card does: the waits for the card to leave busy and for the data
\* token take no more polls than fit into the timeout, and the wait for a
\* response no more than its number of tries.
C14_StorageOpsBounded ==
  /\ xfer_pc \in {"busy_wait", "token", "write_busy"} =>
       polls <= BusyTimeoutPolls
  /\ xfer_pc = "response" => polls < ResponseTries

\* C15: no step of an append changes the clock, the configuration, the
\* status, the commanded state, the compressor output or a timer, whether
\* the append's block reads and writes succeed or fail; and no append keeps
\* the control loop from going on to its next tick.
C15_StorageNeverAffectsControl ==
  [][ /\ ~TickStep => UNCHANGED << millis, cfgVars, ctlVars >>
      /\ sd_pc' # "hung"
    ]_vars

\* C18: with logging enabled, every tick calls save_data_point() exactly
\* once, with a data point holding the clock, the active configuration and
\* the state the tick ended with, whether the tick took the startup gate,
\* the evaluation or the halt; no other step starts an append, and none is
\* started after the halt.
C18_EveryTickLogs ==
  [][ /\ (TickStep /\ logging_enabled) =>
           /\ sd_pc' = "read0"
           /\ appends' = appends + 1
           /\ data'.ms_low = millis' % 256
           /\ data'.tag = [ms_since_startup |-> millis',
                           config |-> active_config',
                           state |-> current_state']
      /\ ~TickStep => appends' = appends
      /\ halted => appends' = appends
    ]_vars

InRange(c) ==
  \A i \in 1..Len(menu_entries) :
    /\ c[menu_entries[i].value] >= menu_entries[i].min
    /\ c[menu_entries[i].value] <= menu_entries[i].max

\* C17: after any rotary edits and button presses, the button interrupt
\* coming at any point of an edit step, every field of the active and of
\* the persisted configuration is within its range; and an edit step that
\* goes below the minimum ends at the maximum, one that goes above the
\* maximum ends at the minimum.
C17_ConfigInRange ==
  [][ /\ InRange(active_config')
      /\ InRange(persisted_config')
      /\ (loop_pc = "clamp" /\ loop_pc' = "top") =>
           LET entry == menu_entries[screen_index]
           IN /\ dirty_config[entry.value] < entry.min
                   => dirty_config'[entry.value] = entry.max
              /\ dirty_config[entry.value] > entry.max
                   => dirty_config'[entry.value] = entry.min
              /\ InRange(dirty_config')
    ]_vars

\* the state the last tick handed to set_compressor(): commanded on with no
\* override after an evaluation, off in halt()
EffectiveState ==
  /\ branch = "eval"
  /\ current_state.target_compressor_state = HIGH
  /\ ~override

\* C19: a tick writes the relay pin only when it took the evaluation or the
\* halt and the effective state differs from the compressor output of
\* before; a turn-on then sets the on-timer to the clock and clears the
\* off-timer, a turn-off sets the off-timer and clears the on-timer; every
\* other tick leaves the pin, the output and both timers as they are.
C19_EdgeTriggeredOutput ==
  [][ TickStep =>
        /\ relay_written' <=>
             /\ branch' \in {"eval", "halt"}
             /\ EffectiveState' # current_state.actual_compressor_state
        /\ relay_written' =>
             /\ relay' = EffectiveState'
             /\ current_state'.actual_compressor_state = EffectiveState'
             /\ compressor_turned_on_at'
                  = (IF EffectiveState' THEN millis' ELSE 0)
             /\ compressor_turned_off_at'
                  = (IF EffectiveState' THEN 0 ELSE millis')
        /\ ~relay_written' =>
             /\ relay' = relay
             /\ current_state'.actual_compressor_state
                  = current_state.actual_compressor_state
             /\ compressor_turned_on_at' = compressor_turned_on_at
             /\ compressor_turned_off_at' = compressor_turned_off_at
    ]_vars

\* C19 witness: the tick commanded on with no override while the
\* compressor had been on for some time, and wrote nothing
C19_Witness ==
  /\ branch = "eval"
  /\ EffectiveState
  /\ ~relay_written
  /\ on_for > 0
  /\ compressor_turned_on_at # millis

\* the metadata writes of a complete append, in the order the claim gives
\* them: block 1 for the repair when the counts disagreed, then block 0,
\* then block 1
MetadataWrites ==
  IF CountsDisagreed THEN << Block1, Block0, Block1 >>
  ELSE << Block0, Block1 >>

\* the append has returned false
AppendFailed == sd_pc = "idle" /\ sd_result = "false"

\* C20: the writes of an append are a prefix of: the repair's write of
\* block 1 when the counts disagreed, block 0, block 1, the record; an
\* append that returned false wrote no record and changed no block other
\* than 0 and 1, one that failed before block 0 was written left block 0
\* as it was, and one that failed before the second write of block 1 left
\* the count of block 1 as it was or as the repair put it; an append
\* returns true only
\* after all its writes; the step that fails writes nothing, and nothing is
\* written after the return.
C20_AppendAbortsAtFailure ==
  /\ [](/\ Len(sd_writes) <= Len(MetadataWrites) + 1
        /\ \A i \in 1..Len(sd_writes) :
             i <= Len(MetadataWrites) => sd_writes[i] = MetadataWrites[i]
        /\ AppendFailed =>
             /\ Len(sd_writes) <= Len(MetadataWrites)
             /\ done = done_before
             /\ DOMAIN card = DOMAIN card_before
             /\ \A a \in DOMAIN card \ {Block0, Block1} :
                  card[a] = card_before[a]
             /\ Len(sd_writes) < Len(MetadataWrites) - 1 =>
                  card[Block0] = card_before[Block0]
             /\ Len(sd_writes) = 0 => card = card_before
             /\ Len(sd_writes) < Len(MetadataWrites) =>
                  sd_count_sector(card[Block1]).count
                    \in { sd_count_sector(card_before[Block1]).count,
                          AgreedCount }
        /\ AppendSucceeded => Len(sd_writes) = Len(MetadataWrites) + 1)
  /\ [][ /\ (sd_pc # "idle" /\ sd_pc' = "idle" /\ sd_result' = "false") =>
              card' = card /\ sd_writes' = sd_writes
         /\ sd_pc = "idle" => card' = card
       ]_vars

\* C20 witness: the write of block 0 succeeded and the write of block 1
\* failed; the append returned false with block 0 alone advanced
C20_Witness ==
  /\ AppendFailed
  /\ ~CountsDisagreed
  /\ sd_writes = << Block0 >>
  /\ card[Block0] # card_before[Block0]
  /\ card[Block1] = card_before[Block1]

\* the card accepted the bring-up: the last command init_sd_card() sent was
\* the init command and its response was 0x00
BringUpAccepted ==
  /\ commands # << >>
  /\ commands[Len(commands)].cmd = 41
  /\ commands[Len(commands)].response = 0

\* an append has been attempted
AppendAttempted == appends > 0 \/ sd_pc # "idle"

\* C21: once init_sd_card() has returned, it has returned true only if the
\* response to the last init command was 0x00; logging is enabled only
\* then, and only then does a tick attempt an append.
C21_ReadyOnlyIfAccepted ==
  /\ (init_pc \in {"return", "done"} /\ init_result = "true")
       => BringUpAccepted
  /\ logging_enabled => BringUpAccepted
  /\ AppendAttempted => BringUpAccepted

\* the commands of the bring-up in the order the handshake gives them:
\* reset, interface check, then rounds of app-cmd prefix and init
HandshakeOrder ==
  \A k \in 1..Len(commands) :
    LET c == commands[k]
    IN /\ k = 1 => c.cmd = 0 /\ c.arg = 0
       /\ k = 2 => c.cmd = 8 /\ c.arg = 426
       /\ (k > 2 /\ k % 2 = 1) => c.cmd = 55 /\ c.arg = 0
       /\ (k > 2 /\ k % 2 = 0) => c.cmd = 41 /\ c.arg = 1073741824

\* C22: the bring-up sends reset, interface check, then at most 3 rounds of
\* app-cmd prefix and init; no command follows a reset or an interface
\* check whose response was not 0x01, nor an init whose response was 0x00;
\* and no block read or write is issued unless the bring-up was accepted.
C22_HandshakeOrder ==
  /\ HandshakeOrder
  /\ Len(commands) <= 2 + 2 * 3
  /\ \A k \in 1..(Len(commands) - 1) :
       /\ commands[k].cmd \in {0, 8} => commands[k].response = 1
       /\ commands[k].cmd = 41 => commands[k].response # 0
  /\ AppendAttempted => BringUpAccepted

\* C23: the wait for not-busy that starts send_card_command() ends within
\* the timeout; when it ends on 0xFF the command frame is sent and its
\* response awaited; when it ends with the card still busy no frame is sent
\* and the block read or write returns false.
C23_FrameOnlyAfterNotBusy ==
  [][ /\ xfer_pc = "busy_wait" => polls <= BusyTimeoutPolls
      /\ (xfer_pc = "busy_wait" /\ xfer_pc' # "busy_wait") =>
           IF r_byte' = 255
           THEN xfer_pc' = "response"
           ELSE xfer_pc' = "idle" /\ op_result' = "false"
    ]_vars

\* C24: when calculate_crc8() has been called twice on a span, of the count
\* (4 bytes) or of a record, the two results are equal if the bytes were
\* the same and differ if one bit was flipped in between; the result is a
\* byte, and on a count it is the value the count blocks carry.
C24_ChecksumDetectsBitFlip ==
  /\ \A k \in 1..Len(crc_results) : crc_results[k] \in 0..255
  /\ (Len(crc_span) = 4 /\ Len(crc_results) = 2) =>
       crc_results[2] = calculate_crc8(crc_span)
  /\ Len(crc_results) = 2 =>
       IF crc_flip = -1
       THEN crc_results[2] = crc_results[1]
       ELSE crc_results[2] # crc_results[1]

\* C24 witness: the highest bit of the last byte of a record was flipped
\* and the checksum taken again
C24_Witness ==
  /\ Len(crc_results) = 2
  /\ Len(crc_span) = RecordLen
  /\ crc_flip = 8 * RecordLen - 1

\* C25: after a tick that took the startup gate or the evaluation, the
\* compressor output is on exactly when the status is cooling, the status
\* is startup_delay after the gate and one of cooling, reached_target,
\* dead_time, compressor_max_runtime and overheat after the evaluation, and
\* the relay pin carries the output.
C25_OutputOnIffCooling ==
  TickCompleted =>
    /\ current_state.actual_compressor_state = HIGH
         <=> current_state.status = cooling
    /\ relay = current_state.actual_compressor_state
    /\ branch = "gate" => current_state.status = startup_delay
    /\ branch = "eval" =>
         current_state.status \in { cooling, reached_target, dead_time,
                                    compressor_max_runtime, overheat }

\* C25 witness: within the target with the hysteresis time not yet over,
\* the tick keeps the compressor on and the status cooling
C25_Witness ==
  /\ branch = "eval"
  /\ within_for >= 0
  /\ current_state.status = cooling
  /\ current_state.actual_compressor_state = HIGH
  /\ relay = HIGH

\* C26: in edit mode screen_index is one of the screens 1..6 of the six
\* menu entries, whenever the button interrupt fires.
C26_EditModeOnEntryScreen ==
  edit_mode => screen_index \in 1..Len(menu_entries)

\* C27: the copy at the top of a tick leaves in active_config the
\* configuration that is persisted: the one loaded at boot, or the one
\* saved when edit mode was last left.
C27_ActiveIsCommitted ==
  [][ (loop_pc = "top" /\ loop_pc' = "evaluating") =>
        active_config' = persisted_config'
    ]_vars

\* C28: the block an append writes its record to is neither block 0 nor
\* block 1, whatever count the card held.
C28_RecordNeverInCountBlocks ==
  \A k \in 1..Len(sd_writes) :
    k > Len(MetadataWrites) => sd_writes[k] \notin {Block0, Block1}

=============================================================================
